---- MODULE Spec2Model ----
(***************************************************************************)
(* Connection resolution and product dispatch of the InfluxDB 3 MCP        *)
(* server: BaseConnectionService, QueryService, WriteService and           *)
(* DatabaseManagementService, with the HTTP client and the backend as the  *)
(* environment.                                                            *)
(***************************************************************************)
EXTENDS Integers, Sequences, FiniteSets, TLC

VARIABLES config, ctorThrows, client, last, calls

vars == <<config, ctorThrows, client, last, calls>>

(***************************************************************************)
(* Configuration values                                                    *)
(***************************************************************************)

\* A configuration field that is not set.  Every test the services make on
\* a field is a truthiness test (!!x, x || "", !x), for which undefined and
\* the empty string behave alike.
Absent == ""

Core == "core"
Enterprise == "enterprise"
CloudDedicated == "cloud-dedicated"
\* loadConfig's default when INFLUX_DB_PRODUCT_TYPE is unset
UnknownType == "unknown"

ControlPlaneHost == "https://console.influxdata.com"

ProductTypes == {Core, Enterprise, CloudDedicated, UnknownType}
Urls == {Absent, "http://localhost:8181/", ControlPlaneHost}
Tokens == {Absent, "data-token"}
ClusterIds == {Absent, "c1"}
AccountIds == {Absent, "a1"}
ManagementTokens == {Absent, "mgmt-token"}

InfluxConfigs ==
  [type : ProductTypes, url : Urls, token : Tokens, cluster_id : ClusterIds,
   account_id : AccountIds, management_token : ManagementTokens]

\* JavaScript truthiness of an optional string
Truthy(s) == s # Absent

(***************************************************************************)
(* BaseConnectionService: hosts, capabilities, client                      *)
(***************************************************************************)

NullClient == [null |-> TRUE]

getDataHost(influx) ==
  IF influx.type = CloudDedicated /\ Truthy(influx.cluster_id)
    THEN "https://" \o influx.cluster_id \o ".a.influxdb.io"
    ELSE influx.url

getManagementHost(influx) ==
  IF influx.type = CloudDedicated THEN ControlPlaneHost ELSE influx.url

\* isValidConfig without the cloud-dedicated branch
isValidConfig_SelfHostedOnly(influx) ==
  Truthy(influx.url) /\ Truthy(influx.token)

isValidConfig(influx) ==
  IF influx.type = CloudDedicated
    THEN Truthy(influx.cluster_id) /\ Truthy(influx.token)
    ELSE Truthy(influx.url) /\ Truthy(influx.token)

hasManagementCapabilities(influx) ==
  IF influx.type = CloudDedicated
    THEN Truthy(influx.cluster_id) /\ Truthy(influx.account_id)
         /\ Truthy(influx.management_token)
    ELSE Truthy(influx.url) /\ Truthy(influx.token)

hasDataCapabilities(influx) == isValidConfig(influx)

\* new InfluxDBClient({host, token}); throws is the constructor's outcome
InfluxDBClient(host, token) ==
  [null |-> FALSE, host |-> host, token |-> token]

\* initializeClient without the isValidConfig test
initializeClient_Unchecked(influx, throws) ==
  IF throws THEN NullClient
  ELSE InfluxDBClient(getDataHost(influx), influx.token)

initializeClient(influx, throws) ==
  IF isValidConfig(influx)
    THEN IF throws THEN NullClient
         ELSE InfluxDBClient(getDataHost(influx), influx.token)
    ELSE NullClient

getClient(c) == c

getConnectionInfo(influx, c) ==
  [isConnected |-> ~c.null,
   url |-> IF Truthy(getDataHost(influx)) THEN getDataHost(influx) ELSE "",
   hasToken |-> Truthy(influx.token),
   type |-> influx.type]

\* HttpClientService.createInfluxClient(host, token)
createInfluxClient(host, token) == [host |-> host, token |-> token]

\* getInfluxHttpClient that takes the data token for both request kinds
getInfluxHttpClient_OneToken(influx, forManagement) ==
  LET h == IF forManagement THEN getManagementHost(influx)
           ELSE getDataHost(influx)
  IN createInfluxClient(IF Truthy(h) THEN h ELSE "",
                        IF Truthy(influx.token) THEN influx.token ELSE "")

getInfluxHttpClient(influx, forManagement) ==
  LET h == IF forManagement THEN getManagementHost(influx)
           ELSE getDataHost(influx)
      host == IF Truthy(h) THEN h ELSE ""
      token == IF forManagement /\ influx.type = CloudDedicated
                 THEN (IF Truthy(influx.management_token)
                         THEN influx.management_token ELSE "")
                 ELSE (IF Truthy(influx.token) THEN influx.token ELSE "")
  IN createInfluxClient(host, token)

\* url.replace(/\/$/, "")
StripTrailingSlash(url) ==
  IF Len(url) > 0 /\ SubSeq(url, Len(url), Len(url)) = "/"
    THEN SubSeq(url, 1, Len(url) - 1)
    ELSE url

(***************************************************************************)
(* Calls and their observable outcome                                      *)
(***************************************************************************)

NoError == [name |-> "none", message |-> ""]
Error(message) == [name |-> "Error", message |-> message]

\* an outbound request, as the service hands it to fetch(), to the HTTP
\* client or to the streaming client; token is the credential it carries.
\* What the transport makes of a request with an empty host is left to the
\* environment: every outcome stays possible.
Request(via, method, host, token, path, body, accept) ==
  [via |-> via, method |-> method, host |-> host, token |-> token,
   path |-> path, body |-> body, accept |-> accept]

\* Arguments, results and request bodies are records, so that any two of
\* them can be compared.
Void == [void |-> TRUE]
Bool(b) == [bool |-> b]
NoArg == [none |-> TRUE]
NoBody == [none |-> TRUE]
TextBody(text) == [text |-> text]

\* the outcome of one call: a value or a raised error, and the requests
\* the call issued, in order
Ret(value, requests) ==
  [outcome |-> "return", value |-> value, error |-> NoError,
   requests |-> requests]

Thr(error, requests) ==
  [outcome |-> "throw", value |-> Void, error |-> error,
   requests |-> requests]

\* the call answered without consulting the backend
NoAnswer == [none |-> TRUE]

\* a call as its caller observes it, together with the answer the backend
\* gave while it ran
Call(op, arg, answer, r) ==
  [op |-> op, arg |-> arg,
   answer |-> IF r.requests = <<>> THEN NoAnswer ELSE answer,
   outcome |-> r.outcome, value |-> r.value, error |-> r.error,
   requests |-> r.requests]

NoCall ==
  [op |-> "none", arg |-> NoArg, answer |-> NoAnswer, outcome |-> "none",
   value |-> Void, error |-> NoError, requests |-> <<>>]

\* no call's outcome is waiting for the caller
Idle == last.op = "none"

(***************************************************************************)
(* JSON values, as far as the services look into them                      *)
(***************************************************************************)

JUndefined == [t |-> "undefined"]
JNull == [t |-> "null"]
JStr(s) == [t |-> "string", v |-> s]
JArr(items) == [t |-> "array", v |-> items]
JObj(fields) == [t |-> "object", v |-> fields]

\* o?.k : undefined when o is null or undefined or has no such property
Prop(o, k) ==
  IF o.t = "object" /\ k \in DOMAIN o.v THEN o.v[k] ELSE JUndefined

IsArray(j) == j.t = "array"
\* typeof j === "object" (arrays and null included)
TypeofObject(j) == j.t \in {"object", "array", "null"}
JTruthy(j) ==
  CASE j.t = "undefined" -> FALSE
    [] j.t = "null" -> FALSE
    [] j.t = "string" -> j.v # ""
    [] OTHER -> TRUE
\* a || b
JOr(a, b) == IF JTruthy(a) THEN a ELSE b

RECURSIVE JsString(_)
\* String(j) and `${j}`
JsString(j) ==
  CASE j.t = "undefined" -> "undefined"
    [] j.t = "null" -> "null"
    [] j.t = "string" -> j.v
    [] j.t = "array" ->
         IF j.v = <<>> THEN ""
         ELSE LET RECURSIVE Join(_)
                  Item(x) == IF x.t \in {"undefined", "null"} THEN ""
                             ELSE JsString(x)
                  Join(q) == IF Len(q) = 1 THEN Item(q[1])
                             ELSE Item(q[1]) \o "," \o Join(Tail(q))
              IN Join(j.v)
    [] OTHER -> "[object Object]"

RECURSIVE Stringify(_)
\* JSON.stringify(j), for the bodies the backend model produces; the keys
\* of an object come in one fixed order
Stringify(j) ==
  CASE j.t = "undefined" -> "undefined"
    [] j.t = "null" -> "null"
    [] j.t = "string" -> "\"" \o j.v \o "\""
    [] j.t = "array" ->
         IF j.v = <<>> THEN "[]"
         ELSE LET RECURSIVE Join(_)
                  Join(q) == IF Len(q) = 1 THEN Stringify(q[1])
                             ELSE Stringify(q[1]) \o "," \o Join(Tail(q))
              IN "[" \o Join(j.v) \o "]"
    [] OTHER ->
         LET RECURSIVE Fields(_)
             Fields(K) ==
               IF K = {} THEN ""
               ELSE LET k == CHOOSE x \in K : TRUE
                        rest == K \ {k}
                    IN "\"" \o k \o "\":" \o Stringify(j.v[k])
                       \o (IF rest = {} THEN "" ELSE "," \o Fields(rest))
         IN "{" \o Fields(DOMAIN j.v) \o "}"

(***************************************************************************)
(* The environment: what the HTTP client and the backend answer            *)
(***************************************************************************)

ErrorStatuses == {400, 401, 403, 404, 405, 409, 413, 422, 500}

StatusText(s) ==
  CASE s = 400 -> "Bad Request"
    [] s = 401 -> "Unauthorized"
    [] s = 403 -> "Forbidden"
    [] s = 404 -> "Not Found"
    [] s = 405 -> "Method Not Allowed"
    [] s = 409 -> "Conflict"
    [] s = 413 -> "Payload Too Large"
    [] s = 422 -> "Unprocessable Entity"
    [] OTHER -> "Internal Server Error"

NoStatus == 0

ErrorBodies == {JUndefined, JObj([error |-> JStr("backend says no")])}

\* an error thrown by the HTTP client: with a response (non-2xx) or
\* without one (network failure)
HttpErrors ==
  {[response |-> TRUE, status |-> s, statusText |-> StatusText(s),
    data |-> d, code |-> "", message |-> "Request failed"] :
      s \in ErrorStatuses, d \in ErrorBodies}
  \cup
  {[response |-> FALSE, status |-> NoStatus, statusText |-> "",
    data |-> JUndefined, code |-> c, message |-> "connect failed"] :
      c \in {"ECONNREFUSED", "ENOTFOUND", ""}}

\* error.response?.status
ErrStatus(e) == IF e.response THEN e.status ELSE NoStatus
\* error.response?.data
ErrData(e) == IF e.response THEN e.data ELSE JUndefined

HttpOk(data) == [ok |-> TRUE, data |-> data]
HttpFail(e) == [ok |-> FALSE, error |-> e]

\* what an HTTP call can end in: a 2xx answer with one of the bodies, or
\* an error
HttpOutcomes(bodies) ==
  {HttpOk(b) : b \in bodies} \cup {HttpFail(e) : e \in HttpErrors}

\* an error raised inside a service, seen by its catch clause
LocalError(message) ==
  [response |-> FALSE, status |-> NoStatus, statusText |-> "",
   data |-> JUndefined, code |-> "", message |-> message]

(***************************************************************************)
(* Diagnostics: ping and getHealthStatus                                   *)
(***************************************************************************)

HealthBodies ==
  {JUndefined, JObj([status |-> JStr("pass")]), JObj([status |-> JStr("fail")]),
   JNull}

\* what fetch() does: a response (2xx or not) or an exception.  A 2xx
\* response carries the version headers and a body; JUndefined is a body
\* response.json() cannot parse.
FetchOutcomes ==
  {[kind |-> "response", status |-> 200, version |-> v, build |-> b,
    body |-> d] : v \in {"", "3.0.0"}, b \in {"", "Core"}, d \in HealthBodies}
  \cup
  {[kind |-> "response", status |-> s, version |-> "", build |-> "",
    body |-> JUndefined] : s \in {401, 500}}
  \cup
  {[kind |-> "throw", status |-> NoStatus, version |-> "", build |-> "",
    body |-> JUndefined]}

FetchThrowMessage == "fetch failed"

StatusString(s) ==
  CASE s = 401 -> "401"
    [] s = 500 -> "500"
    [] OTHER -> "200"

PingValue(ok, version, build, message) ==
  [ok |-> ok, version |-> version, build |-> build, message |-> message]

\* ping that probes only when a token is configured
ping_NeedsToken(influx, resp) ==
  LET url == getDataHost(influx)
      req == Request("fetch", "GET", StripTrailingSlash(url), influx.token,
                     "/ping", NoBody, "")
  IN IF ~Truthy(url) \/ ~Truthy(influx.token)
       THEN Ret(PingValue(FALSE, "", "", "No data host configured"), <<>>)
     ELSE IF resp.kind = "throw"
       THEN Ret(PingValue(FALSE, "", "", FetchThrowMessage), <<req>>)
     ELSE IF resp.status = 200
       THEN Ret(PingValue(TRUE, resp.version,
                          IF resp.build = "" /\ resp.version # ""
                            THEN "Other" ELSE resp.build,
                          ""), <<req>>)
     ELSE Ret(PingValue(FALSE, "", "",
                        "Ping failed with status " \o StatusString(resp.status)),
              <<req>>)

ping(influx, resp) ==
  LET url == getDataHost(influx)
      req == Request("fetch", "GET", StripTrailingSlash(url), influx.token,
                     "/ping", NoBody, "")
  IN IF ~Truthy(url)
       THEN Ret(PingValue(FALSE, "", "", "No data host configured"), <<>>)
     ELSE IF resp.kind = "throw"
       THEN Ret(PingValue(FALSE, "", "", FetchThrowMessage), <<req>>)
     ELSE IF resp.status = 200
       THEN Ret(PingValue(TRUE, resp.version,
                          IF resp.build = "" /\ resp.version # ""
                            THEN "Other" ELSE resp.build,
                          ""), <<req>>)
     ELSE Ret(PingValue(FALSE, "", "",
                        "Ping failed with status " \o StatusString(resp.status)),
              <<req>>)

\* getHealthStatus that lets the exception of fetch through
getHealthStatus_Throws(influx, c, resp) ==
  LET url == getDataHost(influx)
      req == Request("fetch", "GET", StripTrailingSlash(url), influx.token,
                     "/health", NoBody, "")
      fail == JObj([status |-> JStr("fail")])
  IN IF ~Truthy(url) \/ c.null
       THEN Ret(fail, <<>>)
     ELSE IF resp.kind = "throw"
       THEN Thr(Error(FetchThrowMessage), <<req>>)
     ELSE IF resp.status = 200
       THEN IF resp.body = JUndefined
              THEN Ret(JObj([status |-> JStr("pass")]), <<req>>)
              ELSE Ret(resp.body, <<req>>)
     ELSE Ret(fail, <<req>>)

getHealthStatus(influx, c, resp) ==
  LET url == getDataHost(influx)
      req == Request("fetch", "GET", StripTrailingSlash(url), influx.token,
                     "/health", NoBody, "")
      fail == JObj([status |-> JStr("fail")])
  IN IF ~Truthy(url) \/ c.null
       THEN Ret(fail, <<>>)
     ELSE IF resp.kind = "throw"
       THEN Ret(fail, <<req>>)
     ELSE IF resp.status = 200
       THEN IF resp.body = JUndefined
              THEN Ret(JObj([status |-> JStr("pass")]), <<req>>)
              ELSE Ret(resp.body, <<req>>)
     ELSE Ret(fail, <<req>>)

(***************************************************************************)
(* DatabaseManagementService                                               *)
(***************************************************************************)

DbNames == {"sensors", "my db"}

\* encodeURIComponent, on the characters DbNames uses: the unreserved
\* characters stay, the others are percent-encoded
EncodeChar(ch) ==
  CASE ch = " " -> "%20"
    [] ch = "/" -> "%2F"
    [] ch = "&" -> "%26"
    [] ch = "=" -> "%3D"
    [] ch = "?" -> "%3F"
    [] ch = "#" -> "%23"
    [] ch = "+" -> "%2B"
    [] ch = "%" -> "%25"
    [] OTHER -> ch

RECURSIVE encodeURIComponent(_)
encodeURIComponent(s) ==
  IF Len(s) = 0 THEN ""
  ELSE EncodeChar(SubSeq(s, 1, 1))
       \o encodeURIComponent(SubSeq(s, 2, Len(s)))

DbItems ==
  {JStr("db1"), JStr("db2"),
   JObj(("iox::database" :> JStr("db1"))),
   JObj(("iox::database" :> JStr("db1")) @@ [name |-> JStr("other")]),
   JObj([name |-> JStr("db2")]),
   JObj([id |-> JStr("x")]),
   JNull}

DbLists ==
  {<<>>} \cup {<<a>> : a \in DbItems}
  \cup {<<JStr("db1"), JStr("db2")>>, <<JStr("db2"), JStr("db1")>>}

\* 2xx bodies of GET /api/v3/configure/database
ListBodies ==
  {JArr(l) : l \in DbLists}
  \cup {JObj([databases |-> JArr(l)]) : l \in DbLists}
  \cup {JObj([data |-> JObj([databases |-> JArr(l)])]) : l \in DbLists}
  \cup {JObj([result |-> JObj([databases |-> JArr(l)])]) : l \in DbLists}
  \cup {JObj([databases |-> JArr(<<JStr("db1")>>),
              data |-> JObj([databases |-> JArr(<<JStr("db2")>>)])]),
        JObj([data |-> JObj([databases |-> JArr(<<JStr("db1")>>)]),
              result |-> JObj([databases |-> JArr(<<JStr("db2")>>)])]),
        JObj([data |-> JObj([databases |-> JStr("db1")]),
              result |-> JObj([databases |-> JArr(<<JStr("db2")>>)])]),
        JObj([items |-> JArr(<<JStr("db1")>>)]),
        JObj([databases |-> JStr("db1")]),
        JNull, JStr("db1"), JStr("")}

\* normalizeItem preferring the name field to the legacy key
normalizeItem_NameFirst(item) ==
  IF item.t = "string" THEN JObj([name |-> item])
  ELSE IF JTruthy(item) /\ TypeofObject(item) /\ JTruthy(Prop(item, "name"))
    THEN JObj([name |-> Prop(item, "name")])
  ELSE IF JTruthy(item) /\ TypeofObject(item)
          /\ JTruthy(Prop(item, "iox::database"))
    THEN JObj([name |-> Prop(item, "iox::database")])
  ELSE JObj([name |-> JStr(JsString(item))])

\* the callback of databases.map
normalizeItem(item) ==
  IF item.t = "string" THEN JObj([name |-> item])
  ELSE IF JTruthy(item) /\ TypeofObject(item)
          /\ JTruthy(Prop(item, "iox::database"))
    THEN JObj([name |-> Prop(item, "iox::database")])
  ELSE IF JTruthy(item) /\ TypeofObject(item) /\ JTruthy(Prop(item, "name"))
    THEN JObj([name |-> Prop(item, "name")])
  ELSE JObj([name |-> JStr(JsString(item))])

MapItems(items) == [i \in 1..Len(items) |-> normalizeItem(items[i])]

\* listDatabasesBody answering an unknown structure with an empty list
listDatabasesBody_EmptyOnUnknown(response) ==
  IF ~JTruthy(response) \/ ~TypeofObject(response)
    THEN HttpOk(JArr(<<>>))
  ELSE IF IsArray(Prop(response, "databases"))
    THEN HttpOk(JArr(MapItems(Prop(response, "databases").v)))
  ELSE IF IsArray(response)
    THEN HttpOk(JArr(MapItems(response.v)))
  ELSE LET possibleDatabases ==
             JOr(JOr(Prop(Prop(response, "data"), "databases"),
                     Prop(Prop(response, "result"), "databases")),
                 Prop(response, "databases"))
       IN IF IsArray(possibleDatabases)
            THEN HttpOk(JArr(MapItems(possibleDatabases.v)))
            ELSE HttpOk(JArr(<<>>))

\* the try block of listDatabases on a 2xx body: the list, or the error
\* it throws
listDatabasesBody(response) ==
  IF ~JTruthy(response) \/ ~TypeofObject(response)
    THEN HttpFail(LocalError("Invalid response format from InfluxDB API"))
  ELSE IF IsArray(Prop(response, "databases"))
    THEN HttpOk(JArr(MapItems(Prop(response, "databases").v)))
  ELSE IF IsArray(response)
    THEN HttpOk(JArr(MapItems(response.v)))
  ELSE LET possibleDatabases ==
             JOr(JOr(Prop(Prop(response, "data"), "databases"),
                     Prop(Prop(response, "result"), "databases")),
                 Prop(response, "databases"))
       IN IF IsArray(possibleDatabases)
            THEN HttpOk(JArr(MapItems(possibleDatabases.v)))
            ELSE HttpFail(LocalError("Unexpected response structure: "
                                     \o Stringify(response)))

\* the catch clause of listDatabases
listDatabasesError(e) ==
  IF ErrStatus(e) = 401
    THEN Error("Unauthorized: Check your InfluxDB token permissions")
  ELSE IF ErrStatus(e) = 404
    THEN Error("Database endpoint not found: Check your InfluxDB version and URL")
  ELSE IF ErrStatus(e) = 403
    THEN Error("Forbidden: Token does not have sufficient permissions")
  ELSE IF JTruthy(ErrData(e))
    THEN Error("InfluxDB API error: " \o Stringify(ErrData(e)))
  ELSE IF e.code = "ECONNREFUSED"
    THEN Error("Connection refused: Check if InfluxDB is running and URL is correct")
  ELSE IF e.code = "ENOTFOUND"
    THEN Error("Host not found: Check your InfluxDB URL")
  ELSE Error("Database list request failed: " \o e.message)

\* listDatabases answering a failed request with an empty list
listDatabases_SwallowsErrors(influx, c, resp) ==
  IF ~getConnectionInfo(influx, c).isConnected
    THEN Ret(JArr(<<>>), <<>>)
  ELSE LET http == getInfluxHttpClient(influx, FALSE)
           req == Request("http", "GET", http.host, http.token,
                          "/api/v3/configure/database?format=json", NoBody,
                          "")
           tried == IF resp.ok THEN listDatabasesBody(resp.data) ELSE resp
       IN IF tried.ok THEN Ret(tried.data, <<req>>)
          ELSE Ret(JArr(<<>>), <<req>>)

listDatabases(influx, c, resp) ==
  IF ~getConnectionInfo(influx, c).isConnected
    THEN Ret(JArr(<<>>), <<>>)
  ELSE LET http == getInfluxHttpClient(influx, FALSE)
           req == Request("http", "GET", http.host, http.token,
                          "/api/v3/configure/database?format=json", NoBody,
                          "")
           tried == IF resp.ok THEN listDatabasesBody(resp.data) ELSE resp
       IN IF tried.ok THEN Ret(tried.data, <<req>>)
          ELSE Thr(listDatabasesError(tried.error), <<req>>)

createDatabaseError(name, e) ==
  IF ErrStatus(e) = 400
    THEN Error("Bad request: Invalid database name '" \o name \o "'")
  ELSE IF ErrStatus(e) = 401
    THEN Error("Unauthorized: Check your InfluxDB token permissions")
  ELSE IF ErrStatus(e) = 409
    THEN Error("Database '" \o name \o "' already exists")
  ELSE Error("Failed to create database '" \o name \o "': " \o e.message)

createDatabase(influx, name, resp) ==
  LET http == getInfluxHttpClient(influx, FALSE)
      req == Request("http", "POST", http.host, http.token,
                     "/api/v3/configure/database", [db |-> name], "")
  IN IF resp.ok THEN Ret(Bool(TRUE), <<req>>)
     ELSE Thr(createDatabaseError(name, resp.error), <<req>>)

deleteDatabaseError(name, e) ==
  IF ErrStatus(e) = 401
    THEN Error("Unauthorized: Check your InfluxDB token permissions")
  ELSE IF ErrStatus(e) = 404
    THEN Error("Database '" \o name \o "' not found")
  ELSE Error("Failed to delete database '" \o name \o "': " \o e.message)

deleteDatabase(influx, name, resp) ==
  LET http == getInfluxHttpClient(influx, FALSE)
      req == Request("http", "DELETE", http.host, http.token,
                     "/api/v3/configure/database?db="
                       \o encodeURIComponent(name), NoBody, "")
  IN IF resp.ok THEN Ret(Bool(TRUE), <<req>>)
     ELSE Thr(deleteDatabaseError(name, resp.error), <<req>>)

(***************************************************************************)
(* QueryService                                                            *)
(***************************************************************************)

MaxRows == 2

Queries == {"SELECT 1"}
Databases == {"sensors", "my db"}
Measurements == {"cpu"}
\* the format option; Absent is an options object without format
Formats == {Absent, "json", "csv", "parquet", "jsonl", "pretty"}

Rows ==
  {JObj([table_schema |-> JStr("iox"), table_name |-> JStr("cpu")]),
   JObj([table_schema |-> JStr("information_schema"),
         table_name |-> JStr("tables")]),
   JObj([column_name |-> JStr("time"), data_type |-> JStr("Timestamp")])}

RowSeqs == UNION {[1..n -> Rows] : n \in 0..MaxRows}

\* what the cursor of client.query() does: it produces rows, then ends or
\* fails
StreamErrorMessage == "stream closed"
\* the messages a failing cursor reports
StreamErrorMessages == {StreamErrorMessage, "table not found"}

StreamOutcomes ==
  [rows : RowSeqs, fails : {FALSE}, message : {""}]
  \cup [rows : RowSeqs, fails : {TRUE}, message : StreamErrorMessages]

\* bodies of a 2xx answer of POST /api/v3/query_sql
QueryBodies == {JArr(r) : r \in RowSeqs} \cup {JStr("time,value"), JNull}

CapabilityError(message) == [name |-> "CapabilityError", message |-> message]

\* BaseConnectionService.validateDataCapabilities: the error it raises,
\* or NoError
validateDataCapabilities(influx) ==
  IF hasDataCapabilities(influx) THEN NoError
  ELSE CapabilityError("Data capabilities are not configured")

handleQueryError(e) ==
  LET errorMessage ==
        JOr(JOr(Prop(ErrData(e), "error"),
                IF e.response THEN JStr(e.statusText) ELSE JUndefined),
            JStr(e.message))
      text == JsString(errorMessage)
      statusCode == ErrStatus(e)
  IN CASE statusCode = 400 -> Error("Bad request: " \o text)
       [] statusCode = 401 -> Error("Unauthorized: " \o text)
       [] statusCode = 403 -> Error("Access denied: " \o text)
       [] statusCode = 404 -> Error("Database not found: " \o text)
       [] statusCode = 405 -> Error("Method not allowed: " \o text)
       [] statusCode = 422 -> Error("Unprocessable entity: " \o text)
       [] OTHER -> Error("Query failed: " \o text)

\* AcceptHeader asking for JSON whatever the format
AcceptHeader_AlwaysJson(format) == "application/json"

AcceptHeader(format) ==
  CASE format = "json" -> "application/json"
    [] format = "csv" -> "text/csv"
    [] format = "parquet" -> "application/vnd.apache.parquet"
    [] format = "jsonl" -> "application/json"
    [] format = "pretty" -> "application/json"
    [] OTHER -> "application/json"

\* executeCoreEnterpriseQuery that sends a failed request a second time
executeCoreEnterpriseQuery_Retries(influx, query, database, format, env) ==
  LET http == getInfluxHttpClient(influx, FALSE)
      payload == [db |-> database, q |-> query, format |-> format]
      req == Request("http", "POST", http.host, http.token,
                     "/api/v3/query_sql", payload, AcceptHeader(format))
  IN IF env.http.ok THEN Ret(env.http.data, <<req>>)
     ELSE Thr(handleQueryError(env.http.error), <<req, req>>)

executeCoreEnterpriseQuery(influx, query, database, format, env) ==
  LET http == getInfluxHttpClient(influx, FALSE)
      payload == [db |-> database, q |-> query, format |-> format]
      req == Request("http", "POST", http.host, http.token,
                     "/api/v3/query_sql", payload, AcceptHeader(format))
  IN IF env.http.ok THEN Ret(env.http.data, <<req>>)
     ELSE Thr(handleQueryError(env.http.error), <<req>>)

\* for await (const row of result) rows.push(row): the rows collected
\* when the cursor has produced all of produced
RECURSIVE Drain(_, _)
Drain(produced, rows) ==
  IF produced = <<>> THEN rows
  ELSE Drain(Tail(produced), Append(rows, Head(produced)))

\* executeCloudDedicatedQuery returning the rows collected before the
\* cursor failed
executeCloudDedicatedQuery_PartialRows(c, query, database, env) ==
  LET cl == getClient(c)
      req == Request("influxdb3", "query", cl.host, cl.token, "",
                     [q |-> query, db |-> database, type |-> "sql"], "")
  IN IF cl.null
       THEN Thr(handleQueryError(LocalError("InfluxDB client not initialized")),
                <<>>)
     ELSE Ret(JArr(Drain(env.stream.rows, <<>>)), <<req>>)

executeCloudDedicatedQuery(c, query, database, env) ==
  LET cl == getClient(c)
      req == Request("influxdb3", "query", cl.host, cl.token, "",
                     [q |-> query, db |-> database, type |-> "sql"], "")
  IN IF cl.null
       THEN Thr(handleQueryError(LocalError("InfluxDB client not initialized")),
                <<>>)
     ELSE IF env.stream.fails
       THEN Thr(handleQueryError(LocalError(env.stream.message)), <<req>>)
     ELSE Ret(JArr(Drain(env.stream.rows, <<>>)), <<req>>)

\* executeQuery without the validateDataCapabilities call
executeQuery_Unvalidated(influx, c, query, database, fmt, env) ==
  LET format == IF fmt = Absent THEN "json" ELSE fmt
      type == getConnectionInfo(influx, c).type
  IN IF type = CloudDedicated
       THEN executeCloudDedicatedQuery(c, query, database, env)
     ELSE IF type \in {Core, Enterprise}
       THEN executeCoreEnterpriseQuery(influx, query, database, format, env)
     ELSE Thr(Error("Unsupported InfluxDB product type: " \o type), <<>>)

\* env: the answers of the backend, env.http to an HTTP request and
\* env.stream to a streaming query
executeQuery(influx, c, query, database, fmt, env) ==
  LET format == IF fmt = Absent THEN "json" ELSE fmt
      type == getConnectionInfo(influx, c).type
  IN IF validateDataCapabilities(influx) # NoError
       THEN Thr(validateDataCapabilities(influx), <<>>)
     ELSE IF type = CloudDedicated
       THEN executeCloudDedicatedQuery(c, query, database, env)
     ELSE IF type \in {Core, Enterprise}
       THEN executeCoreEnterpriseQuery(influx, query, database, format, env)
     ELSE Thr(Error("Unsupported InfluxDB product type: " \o type), <<>>)

\* result.filter(...).map(row => ({name: row.table_name}))
RECURSIVE MeasurementNames(_, _)
MeasurementNames(rows, onlyIox) ==
  IF rows = <<>> THEN <<>>
  ELSE IF onlyIox /\ Prop(rows[1], "table_schema") # JStr("iox")
    THEN MeasurementNames(Tail(rows), onlyIox)
  ELSE <<JObj([name |-> Prop(rows[1], "table_name")])>>
       \o MeasurementNames(Tail(rows), onlyIox)

\* getMeasurements whose switch sends every type but cloud-dedicated to the
\* SQL endpoint
getMeasurements_UnknownAsSql(influx, c, database, env) ==
  LET type == getConnectionInfo(influx, c).type
      query == IF type = CloudDedicated THEN "SHOW TABLES"
               ELSE "SELECT DISTINCT table_name FROM information_schema.columns WHERE table_schema = 'iox'"
      r == IF type = CloudDedicated
             THEN executeQuery(influx, c, query, database, "json", env)
             ELSE executeCoreEnterpriseQuery(influx, query, database, "json",
                                             env)
  IN IF validateDataCapabilities(influx) # NoError
       THEN Thr(validateDataCapabilities(influx), <<>>)
     ELSE IF r.outcome = "throw"
       THEN Thr(Error("Failed to get measurements: " \o r.error.message),
                r.requests)
     ELSE IF IsArray(r.value)
       THEN Ret(JArr(MeasurementNames(r.value.v, type = CloudDedicated)),
                r.requests)
     ELSE Ret(r.value, r.requests)

getMeasurements(influx, c, database, env) ==
  LET type == getConnectionInfo(influx, c).type
      query == IF type = CloudDedicated THEN "SHOW TABLES"
               ELSE "SELECT DISTINCT table_name FROM information_schema.columns WHERE table_schema = 'iox'"
      r == executeQuery(influx, c, query, database, "json", env)
  IN IF validateDataCapabilities(influx) # NoError
       THEN Thr(validateDataCapabilities(influx), <<>>)
     ELSE IF type \notin {CloudDedicated, Core, Enterprise}
       THEN Thr(Error("Unsupported InfluxDB product type: " \o type), <<>>)
     ELSE IF r.outcome = "throw"
       THEN Thr(Error("Failed to get measurements: " \o r.error.message),
                r.requests)
     ELSE IF IsArray(r.value)
       THEN Ret(JArr(MeasurementNames(r.value.v, type = CloudDedicated)),
                r.requests)
     ELSE Ret(r.value, r.requests)

SchemaColumns(rows) ==
  [i \in 1..Len(rows) |->
     JObj([name |-> Prop(rows[i], "column_name"),
           type |-> Prop(rows[i], "data_type")])]

\* error.message.includes("not found")
RECURSIVE Includes(_, _)
Includes(s, sub) ==
  IF Len(s) < Len(sub) THEN FALSE
  ELSE IF SubSeq(s, 1, Len(sub)) = sub THEN TRUE
  ELSE Includes(SubSeq(s, 2, Len(s)), sub)

\* getMeasurementSchema that wraps every failure alike
getMeasurementSchema_AlwaysWraps(influx, c, measurement, database, env) ==
  LET type == getConnectionInfo(influx, c).type
      query == IF type = CloudDedicated THEN "SHOW COLUMNS IN " \o measurement
               ELSE "SELECT column_name, data_type FROM information_schema.columns WHERE table_name = '"
                    \o measurement \o "' AND table_schema = 'iox'"
      r == executeQuery(influx, c, query, database, "json", env)
  IN IF validateDataCapabilities(influx) # NoError
       THEN Thr(validateDataCapabilities(influx), <<>>)
     ELSE IF type \notin {CloudDedicated, Core, Enterprise}
       THEN Thr(Error("Unsupported InfluxDB product type: " \o type), <<>>)
     ELSE IF r.outcome = "throw"
       THEN Thr(Error("Failed to get schema for measurement '"
                      \o measurement \o "': " \o r.error.message),
                r.requests)
     ELSE IF IsArray(r.value)
       THEN Ret(JObj([columns |-> JArr(SchemaColumns(r.value.v))]), r.requests)
     ELSE Ret(r.value, r.requests)

getMeasurementSchema(influx, c, measurement, database, env) ==
  LET type == getConnectionInfo(influx, c).type
      query == IF type = CloudDedicated THEN "SHOW COLUMNS IN " \o measurement
               ELSE "SELECT column_name, data_type FROM information_schema.columns WHERE table_name = '"
                    \o measurement \o "' AND table_schema = 'iox'"
      r == executeQuery(influx, c, query, database, "json", env)
  IN IF validateDataCapabilities(influx) # NoError
       THEN Thr(validateDataCapabilities(influx), <<>>)
     ELSE IF type \notin {CloudDedicated, Core, Enterprise}
       THEN Thr(Error("Unsupported InfluxDB product type: " \o type), <<>>)
     ELSE IF r.outcome = "throw"
       THEN IF Includes(r.error.message, "not found")
              THEN Thr(Error("Table '" \o measurement
                             \o "' does not exist in database '"
                             \o database \o "'"), r.requests)
              ELSE Thr(Error("Failed to get schema for measurement '"
                             \o measurement \o "': " \o r.error.message),
                       r.requests)
     ELSE IF IsArray(r.value)
       THEN Ret(JObj([columns |-> JArr(SchemaColumns(r.value.v))]), r.requests)
     ELSE Ret(r.value, r.requests)

\* the answers the backend can give to the transport the variant uses
QueryEnvs(influx) ==
  IF influx.type = CloudDedicated
    THEN {[http |-> HttpOk(JNull), stream |-> o] : o \in StreamOutcomes}
    ELSE {[http |-> o,
           stream |-> [rows |-> <<>>, fails |-> FALSE, message |-> ""]] :
            o \in HttpOutcomes(QueryBodies)}

\* what the backend knows of the measurement whose schema is asked for
TableStates == {"missing", "empty", "columns"}

\* the answers the backend can give to the introspection query of
\* getMeasurementSchema: information_schema.columns has no row for a table
\* that is missing or has no column, and answers so successfully; SHOW
\* COLUMNS fails for a missing table
SchemaEnvs(influx, table) ==
  {env \in QueryEnvs(influx) :
     IF influx.type = CloudDedicated
       THEN IF env.stream.fails THEN TRUE
            ELSE /\ table # "missing"
                 /\ (env.stream.rows = <<>>) <=> (table = "empty")
       ELSE (env.http.ok /\ IsArray(env.http.data)) =>
              ((env.http.data.v = <<>>) <=> (table # "columns"))}

(***************************************************************************)
(* WriteService                                                            *)
(***************************************************************************)

LineProtocol == {"cpu,host=a value=1 1640995200000000000", ""}

\* an option the caller set, or left out
Opt(v) == [set |-> TRUE, v |-> v]
None == [set |-> FALSE]
OrDefault(o, d) == IF o.set THEN o.v ELSE d

WriteOptions ==
  [precision : {None, Opt("second")},
   acceptPartial : {None, Opt(FALSE)},
   noSync : {None, Opt(TRUE)}]

\* Boolean.prototype.toString
BoolString(b) == IF b THEN "true" ELSE "false"

\* URLSearchParams serialisation of one value, on the characters the
\* inputs use: application/x-www-form-urlencoded writes a space as "+"
FormEncodeChar(ch) ==
  CASE ch = " " -> "+"
    [] ch = "/" -> "%2F"
    [] ch = "&" -> "%26"
    [] ch = "=" -> "%3D"
    [] ch = "?" -> "%3F"
    [] ch = "#" -> "%23"
    [] ch = "+" -> "%2B"
    [] ch = "%" -> "%25"
    [] OTHER -> ch

RECURSIVE FormEncode(_)
FormEncode(s) ==
  IF Len(s) = 0 THEN ""
  ELSE FormEncodeChar(SubSeq(s, 1, 1)) \o FormEncode(SubSeq(s, 2, Len(s)))

\* new URLSearchParams({db, precision, accept_partial, no_sync}).toString()
WriteParams(database, precision, acceptPartial, noSync) ==
  "db=" \o FormEncode(database)
  \o "&precision=" \o FormEncode(precision)
  \o "&accept_partial=" \o FormEncode(BoolString(acceptPartial))
  \o "&no_sync=" \o FormEncode(BoolString(noSync))

writeLineProtocolError(database, e) ==
  IF ErrStatus(e) = 400
    THEN Error("Bad request: Invalid line protocol format or parameters")
  ELSE IF ErrStatus(e) = 401
    THEN Error("Unauthorized: Check your InfluxDB token permissions")
  ELSE IF ErrStatus(e) = 403
    THEN Error("Access denied: Insufficient permissions for database operations")
  ELSE IF ErrStatus(e) = 413
    THEN Error("Request entity too large: Reduce the size of your line protocol data")
  ELSE IF ErrStatus(e) = 422
    THEN Error("Unprocessable entity: Invalid line protocol syntax")
  ELSE Error("Failed to write data to database '" \o database \o "': "
             \o JsString(ErrData(e)))

\* writeLineProtocol that always sends the default options
writeLineProtocol_DefaultsOnly(influx, lineProtocolData, database, options, resp) ==
  LET http == getInfluxHttpClient(influx, FALSE)
      req == Request("http", "POST", http.host, http.token,
                     "/api/v3/write_lp?"
                       \o WriteParams(database, "nanosecond", TRUE, FALSE),
                     TextBody(lineProtocolData), "application/json")
  IN IF resp.ok THEN Ret(Void, <<req>>)
     ELSE Thr(writeLineProtocolError(database, resp.error), <<req>>)

writeLineProtocol(influx, lineProtocolData, database, options, resp) ==
  LET precision == OrDefault(options.precision, "nanosecond")
      acceptPartial == OrDefault(options.acceptPartial, TRUE)
      noSync == OrDefault(options.noSync, FALSE)
      http == getInfluxHttpClient(influx, FALSE)
      req == Request("http", "POST", http.host, http.token,
                     "/api/v3/write_lp?"
                       \o WriteParams(database, precision, acceptPartial, noSync),
                     TextBody(lineProtocolData), "application/json")
  IN IF resp.ok THEN Ret(Void, <<req>>)
     ELSE Thr(writeLineProtocolError(database, resp.error), <<req>>)

(***************************************************************************)
(* The state machine: one Connection Context and its calls                 *)
(***************************************************************************)

(***************************************************************************)
(* Tool handlers (createTools): each calls a service method and renders    *)
(* its outcome as text                                                     *)
(***************************************************************************)

\* `${n}` for the lengths that occur
NumString(n) ==
  CASE n = 0 -> "0" [] n = 1 -> "1" [] n = 2 -> "2" [] n = 3 -> "3"
    [] OTHER -> "4"

Plural(n) == IF n # 1 THEN "s" ELSE ""

\* Array.prototype.join of JSON values
RECURSIVE JoinValues(_, _)
JoinValues(items, sep) ==
  LET Item(x) == IF x.t \in {"undefined", "null"} THEN "" ELSE JsString(x)
  IN IF items = <<>> THEN ""
     ELSE IF Len(items) = 1 THEN Item(items[1])
     ELSE Item(items[1]) \o sep \o JoinValues(Tail(items), sep)

\* JSON.stringify(j, null, 2) below the top level, pad being the
\* indentation of the line the value starts on; the keys of an object come
\* in one fixed order and properties that are undefined are left out
RECURSIVE Pretty(_, _)
Pretty(j, pad) ==
  CASE j.t \in {"undefined", "null"} -> "null"
    [] j.t = "string" -> "\"" \o j.v \o "\""
    [] j.t = "array" ->
         IF j.v = <<>> THEN "[]"
         ELSE LET RECURSIVE Items(_)
                  Items(q) ==
                    pad \o "  " \o Pretty(q[1], pad \o "  ")
                    \o (IF Len(q) = 1 THEN ""
                        ELSE ",\n" \o Items(Tail(q)))
              IN "[\n" \o Items(j.v) \o "\n" \o pad \o "]"
    [] OTHER ->
         LET defined == {k \in DOMAIN j.v : j.v[k].t # "undefined"}
             RECURSIVE Fields(_)
             Fields(K) ==
               LET k == CHOOSE x \in K : TRUE
                   rest == K \ {k}
               IN pad \o "  \"" \o k \o "\": "
                  \o Pretty(j.v[k], pad \o "  ")
                  \o (IF rest = {} THEN "" ELSE ",\n" \o Fields(rest))
         IN IF defined = {} THEN "{}"
            ELSE "{\n" \o Fields(defined) \o "\n" \o pad \o "}"

\* JSON.stringify(j, null, 2) in a template: undefined gives "undefined"
PrettyStringify(j) == IF j.t = "undefined" THEN "undefined" ELSE Pretty(j, "")

\* what a handler returns: content[0].text and isError
ToolResult(isError, text) == [isError |-> isError, text |-> text]

\* a TypeError raised by the handler's own code on a value it cannot use
TypeError(message) == [name |-> "TypeError", message |-> message]

\* the catch clause of a handler
HandlerCatch(prefix, error) == ToolResult(TRUE, prefix \o error.message)

\* o.k where o must not be null or undefined
ReadProperty(o, k) ==
  IF o.t \in {"undefined", "null"}
    THEN [ok |-> FALSE,
          error |-> TypeError("Cannot read properties of " \o o.t
                              \o " (reading '" \o k \o "')")]
    ELSE [ok |-> TRUE, v |-> Prop(o, k)]

\* what the handler returns, with the outcome of the service call it made
Handled(result, r) ==
  Ret([isError |-> result.isError, text |-> result.text,
       service |-> [outcome |-> r.outcome, value |-> r.value,
                    error |-> r.error]],
      r.requests)

\* a handler without its catch clause: the error of the service reaches
\* the caller of the tool
PlainHandler_Rethrows(success, r) ==
  IF r.outcome = "throw" THEN r
  ELSE Handled(ToolResult(FALSE, success), r)

\* write_line_protocol, create_database, delete_database: a fixed text on
\* success
PlainHandler(success, r) ==
  Handled(IF r.outcome = "throw" THEN HandlerCatch("Error: ", r.error)
          ELSE ToolResult(FALSE, success), r)

executeQueryHandler(args, r) ==
  Handled(
    IF r.outcome = "throw" THEN HandlerCatch("Error: ", r.error)
    ELSE IF args.format = "json"
      THEN ToolResult(FALSE, "Query executed successfully:\n"
                             \o PrettyStringify(r.value))
    ELSE ToolResult(FALSE, "Query executed successfully (" \o args.format
                           \o " format):\n" \o JsString(r.value)),
    r)

\* list.map(...) on a value the service returned
MapOf(list, what) ==
  IF list.t \in {"undefined", "null"}
    THEN [ok |-> FALSE,
          error |-> TypeError("Cannot read properties of " \o list.t
                              \o " (reading 'map')")]
  ELSE IF ~IsArray(list)
    THEN [ok |-> FALSE, error |-> TypeError(what \o ".map is not a function")]
  ELSE [ok |-> TRUE, v |-> list.v]

getMeasurementsHandler(args, r) ==
  LET mapped == MapOf(r.value, "measurements")
      names == [i \in 1..Len(mapped.v) |-> Prop(mapped.v[i], "name")]
      measurementList == JoinValues(names, ", ")
      count == Len(mapped.v)
  IN Handled(
       IF r.outcome = "throw" THEN HandlerCatch("Error: ", r.error)
       ELSE IF ~mapped.ok THEN HandlerCatch("Error: ", mapped.error)
       ELSE ToolResult(FALSE,
              "Found " \o NumString(count) \o " measurement" \o Plural(count)
              \o " in database '" \o args.database \o "':\n"
              \o (IF measurementList = "" THEN "None" ELSE measurementList)),
       r)

getMeasurementSchemaHandler(args, r) ==
  LET columns == ReadProperty(r.value, "columns")
      mapped == MapOf(columns.v, "schema.columns")
      lines == [i \in 1..Len(mapped.v) |->
                  JStr("  - " \o JsString(Prop(mapped.v[i], "name")) \o ": "
                       \o JsString(Prop(mapped.v[i], "type")))]
      count == Len(mapped.v)
  IN Handled(
       IF r.outcome = "throw" THEN HandlerCatch("Error: ", r.error)
       ELSE IF ~columns.ok THEN HandlerCatch("Error: ", columns.error)
       ELSE IF ~mapped.ok THEN HandlerCatch("Error: ", mapped.error)
       ELSE ToolResult(FALSE,
              "Schema for measurement '" \o args.measurement
              \o "' in database '" \o args.database \o "':\n"
              \o NumString(count) \o " column" \o Plural(count) \o ":\n"
              \o JoinValues(lines, "\n")),
       r)

listDatabasesHandler(r) ==
  LET databases == r.value.v
      names == [i \in 1..Len(databases) |-> Prop(databases[i], "name")]
      databaseList == JoinValues(names, ", ")
      count == Len(databases)
  IN Handled(
       IF r.outcome = "throw"
         THEN HandlerCatch("Error listing databases: ", r.error)
       ELSE ToolResult(FALSE,
              "Found " \o NumString(count) \o " database" \o Plural(count)
              \o " in InfluxDB instance:\n"
              \o (IF databaseList = "" THEN "None" ELSE databaseList)
              \o "\n\nDatabase details:\n" \o PrettyStringify(r.value)),
       r)

\* new Date().toISOString()

\* JSON.stringify(healthInfo, null, 2)
HealthDetails(timestamp, connectionInfo, influxType, healthStatus, healthy, pingResult) ==
  LET Field(k, v) == IF v = "" THEN ""
                     ELSE ",\n    \"" \o k \o "\": \"" \o v \o "\""
  IN "{\n  \"timestamp\": \"" \o timestamp \o "\",\n"
     \o "  \"connection\": {\n"
     \o "    \"status\": \"" \o (IF healthy THEN "healthy" ELSE "failed")
     \o "\",\n"
     \o "    \"url\": \"" \o connectionInfo.url \o "\",\n"
     \o "    \"hasToken\": " \o BoolString(connectionInfo.hasToken) \o ",\n"
     \o "    \"type\": \"" \o influxType \o "\"\n  },\n"
     \o "  \"health\": " \o Pretty(healthStatus, "  ") \o ",\n"
     \o "  \"ping\": {\n    \"ok\": " \o BoolString(pingResult.ok)
     \o Field("version", pingResult.version)
     \o Field("build", pingResult.build)
     \o Field("message", pingResult.message)
     \o "\n  }\n}"

\* health_check: getHealthStatus, then ping, then the report
healthCheckHandler(influx, c, h, pg, timestamp) ==
  LET connectionInfo == getConnectionInfo(influx, c)
      healthStatus == h.value
      influxType == IF Truthy(influx.type) THEN influx.type ELSE "unknown"
      status == ReadProperty(healthStatus, "status")
      healthy == status.v = JStr("pass")
      statusText == IF healthy THEN "HEALTHY" ELSE "FAILED"
      result ==
        IF ~status.ok
          THEN HandlerCatch("Error during health check: ", status.error)
        ELSE ToolResult(FALSE,
               "InfluxDB Health Check: " \o statusText
               \o "\n\nConnection Details:\n"
               \o HealthDetails(timestamp, connectionInfo, influxType,
                                healthStatus, healthy, pg.value))
  IN Handled(result, [h EXCEPT !.requests = h.requests \o pg.requests])

\* what TokenManagementService.deleteToken ends in
DeleteTokenOutcomes ==
  {Ret(Bool(TRUE), <<>>), Ret(Bool(FALSE), <<>>),
   Thr(Error("Failed to delete token"), <<>>)}


deleteTokenHandler(args, r) ==
  Handled(
    IF r.outcome = "throw" THEN HandlerCatch("Error: ", r.error)
    ELSE IF r.value.bool
      THEN ToolResult(FALSE, "Token '" \o args.token_name
                             \o "' deleted successfully.")
    ELSE ToolResult(TRUE, "Failed to delete token '" \o args.token_name
                          \o "'."),
    r)

(***************************************************************************)
(* Configuration loading and validation at startup                         *)
(***************************************************************************)

\* the environment variables loadConfig reads; Absent is an unset variable
Environments ==
  [INFLUX_DB_INSTANCE_URL : {Absent, "http://localhost:8181/"},
   INFLUX_DB_TOKEN : Tokens,
   INFLUX_DB_PRODUCT_TYPE : {Absent, Core, Enterprise, CloudDedicated}]

DefaultUrl == "http://localhost:8081/"

loadConfig(env) ==
  [url |-> IF Truthy(env.INFLUX_DB_INSTANCE_URL)
             THEN env.INFLUX_DB_INSTANCE_URL ELSE DefaultUrl,
   token |-> IF Truthy(env.INFLUX_DB_TOKEN) THEN env.INFLUX_DB_TOKEN ELSE "",
   type |-> IF Truthy(env.INFLUX_DB_PRODUCT_TYPE)
              THEN env.INFLUX_DB_PRODUCT_TYPE ELSE UnknownType]

\* the configurations validateConfig is given: those loadConfig produces
\* and those a caller builds, with fields left empty
ValidatedConfigs ==
  {loadConfig(env) : env \in Environments}
  \cup [url : Urls, token : Tokens, type : ProductTypes \cup {Absent}]

UrlRequired == "INFLUX_DB_INSTANCE_URL (or INFLUX_URL) is required"
TokenRequired == "INFLUX_DB_TOKEN (or INFLUX_TOKEN) is required"
TypeRequired ==
  "INFLUX_DB_PRODUCT_TYPE is required and must be one of: enterprise, core"

\* errors.join("\n")
RECURSIVE JoinLines(_)
JoinLines(errors) ==
  IF errors = <<>> THEN ""
  ELSE IF Len(errors) = 1 THEN errors[1]
  ELSE errors[1] \o "\n" \o JoinLines(Tail(errors))

\* the errors validateConfig collects
validateConfigErrors(influx) ==
  (IF ~Truthy(influx.url) THEN <<UrlRequired>> ELSE <<>>)
  \o (IF ~Truthy(influx.token) THEN <<TokenRequired>> ELSE <<>>)
  \o (IF ~Truthy(influx.type)
          \/ influx.type \notin {Enterprise, Core, UnknownType}
        THEN <<TypeRequired>> ELSE <<>>)

validateConfig(influx) ==
  LET errors == validateConfigErrors(influx)
  IN IF Len(errors) > 0
       THEN Thr(Error("Configuration validation failed:\n"
                      \o JoinLines(errors)), <<>>)
       ELSE Ret(Void, <<>>)

\* the answers a call is given when the backend is not asked
NoFetch ==
  [kind |-> "throw", status |-> NoStatus, version |-> "", build |-> "",
   body |-> JUndefined]
NoEnv ==
  [http |-> HttpOk(JNull),
   stream |-> [rows |-> <<>>, fails |-> FALSE, message |-> ""]]

\* the service method a caller invokes by name, with its arguments and
\* the answer the backend gives to it
Perform(influx, c, op, a, answer) ==
  LET unasked == answer = NoAnswer
      fetched == IF unasked THEN NoFetch ELSE answer
      resp == IF unasked THEN HttpOk(JNull) ELSE answer
      env == IF unasked THEN NoEnv ELSE answer
  IN CASE op = "ping" -> ping(influx, fetched)
       [] op = "getHealthStatus" -> getHealthStatus(influx, c, fetched)
       [] op = "listDatabases" -> listDatabases(influx, c, resp)
       [] op = "createDatabase" -> createDatabase(influx, a.name, resp)
       [] op = "deleteDatabase" -> deleteDatabase(influx, a.name, resp)
       [] op = "executeQuery" ->
            executeQuery(influx, c, a.query, a.database, a.format, env)
       [] op = "getMeasurements" ->
            getMeasurements(influx, c, a.database, env)
       [] op = "getMeasurementSchema" ->
            getMeasurementSchema(influx, c, a.measurement, a.database, env)
       [] op = "writeLineProtocol" ->
            writeLineProtocol(influx, a.data, a.database, a.options, resp)
       [] OTHER -> Ret(Void, <<>>)

\* the callers that run calls on the context at the same time
MaxCallers == 2
Callers == 1..MaxCallers

\* a caller with no call running
NotCalling ==
  [pos |-> "idle", op |-> "none", arg |-> NoArg, requests |-> <<>>,
   answer |-> NoAnswer, outcome |-> "none", value |-> Void,
   error |-> NoError]

Init ==
  /\ config \in InfluxConfigs
  /\ ctorThrows \in BOOLEAN
  /\ client = initializeClient(config, ctorThrows)
  /\ last = NoCall
  /\ calls = [p \in Callers |-> NotCalling]

HasDataCapabilities ==
  /\ Idle
  /\ last' = Call("hasDataCapabilities", NoArg, NoAnswer,
                  Ret(Bool(hasDataCapabilities(config)), <<>>))
  /\ UNCHANGED <<config, ctorThrows, client, calls>>

HasManagementCapabilities ==
  /\ Idle
  /\ last' = Call("hasManagementCapabilities", NoArg, NoAnswer,
                  Ret(Bool(hasManagementCapabilities(config)), <<>>))
  /\ UNCHANGED <<config, ctorThrows, client, calls>>

GetClient ==
  /\ Idle
  /\ last' = Call("getClient", NoArg, NoAnswer, Ret(getClient(client), <<>>))
  /\ UNCHANGED <<config, ctorThrows, client, calls>>

GetConnectionInfo ==
  /\ Idle
  /\ last' = Call("getConnectionInfo", NoArg, NoAnswer,
                  Ret(getConnectionInfo(config, client), <<>>))
  /\ UNCHANGED <<config, ctorThrows, client, calls>>

GetInfluxHttpClient ==
  /\ Idle
  /\ \E forManagement \in BOOLEAN :
       last' = Call("getInfluxHttpClient", [forManagement |-> forManagement],
                    NoAnswer,
                    Ret(getInfluxHttpClient(config, forManagement), <<>>))
  /\ UNCHANGED <<config, ctorThrows, client, calls>>

Ping ==
  /\ Idle
  /\ \E resp \in FetchOutcomes :
       last' = Call("ping", NoArg, resp, ping(config, resp))
  /\ UNCHANGED <<config, ctorThrows, client, calls>>

\* getHealthStatus that drops the client handle when the probe fails
GetHealthStatus_DropsClient ==
  /\ Idle
  /\ \E resp \in FetchOutcomes :
       /\ last' = Call("getHealthStatus", NoArg, resp,
                       getHealthStatus(config, client, resp))
       /\ client' = IF resp.kind = "throw" THEN NullClient ELSE client
  /\ UNCHANGED <<config, ctorThrows, calls>>

GetHealthStatus ==
  /\ Idle
  /\ \E resp \in FetchOutcomes :
       last' = Call("getHealthStatus", NoArg, resp,
                    getHealthStatus(config, client, resp))
  /\ UNCHANGED <<config, ctorThrows, client, calls>>

ListDatabases ==
  /\ Idle
  /\ \E resp \in HttpOutcomes(ListBodies) :
       last' = Call("listDatabases", NoArg, resp,
                    listDatabases(config, client, resp))
  /\ UNCHANGED <<config, ctorThrows, client, calls>>

CreateDatabase ==
  /\ Idle
  /\ \E name \in DbNames, resp \in HttpOutcomes({JNull}) :
       last' = Call("createDatabase", [name |-> name], resp,
                    createDatabase(config, name, resp))
  /\ UNCHANGED <<config, ctorThrows, client, calls>>

DeleteDatabase ==
  /\ Idle
  /\ \E name \in DbNames, resp \in HttpOutcomes({JNull}) :
       last' = Call("deleteDatabase", [name |-> name], resp,
                    deleteDatabase(config, name, resp))
  /\ UNCHANGED <<config, ctorThrows, client, calls>>

ExecuteQuery ==
  /\ Idle
  /\ \E query \in Queries, database \in Databases, format \in Formats,
        env \in QueryEnvs(config) :
       last' = Call("executeQuery",
                    [query |-> query, database |-> database, format |-> format],
                    env,
                    executeQuery(config, client, query, database, format, env))
  /\ UNCHANGED <<config, ctorThrows, client, calls>>

GetMeasurements ==
  /\ Idle
  /\ \E database \in Databases, env \in QueryEnvs(config) :
       last' = Call("getMeasurements", [database |-> database], env,
                    getMeasurements(config, client, database, env))
  /\ UNCHANGED <<config, ctorThrows, client, calls>>

GetMeasurementSchema ==
  /\ Idle
  /\ \E measurement \in Measurements, database \in Databases,
        table \in TableStates :
     \E env \in SchemaEnvs(config, table) :
       last' = Call("getMeasurementSchema",
                    [measurement |-> measurement, database |-> database],
                    [http |-> env.http, stream |-> env.stream,
                     table |-> table],
                    getMeasurementSchema(config, client, measurement,
                                         database, env))
  /\ UNCHANGED <<config, ctorThrows, client, calls>>

WriteLineProtocol ==
  /\ Idle
  /\ \E data \in LineProtocol, database \in Databases,
        options \in WriteOptions, resp \in HttpOutcomes({JNull}) :
       last' = Call("writeLineProtocol",
                    [data |-> data, database |-> database, options |-> options],
                    resp,
                    writeLineProtocol(config, data, database, options, resp))
  /\ UNCHANGED <<config, ctorThrows, client, calls>>

\* startup validates a configuration before the context is used
ValidateConfig ==
  /\ Idle
  /\ \E influx \in ValidatedConfigs :
       last' = Call("validateConfig", influx, NoAnswer, validateConfig(influx))
  /\ UNCHANGED <<config, ctorThrows, client, calls>>

\* the caller takes the outcome of the call; the context serves the next
Deliver ==
  /\ ~Idle
  /\ last' = NoCall
  /\ UNCHANGED <<config, ctorThrows, client, calls>>

Next ==
  \/ HasDataCapabilities
  \/ HasManagementCapabilities
  \/ GetClient
  \/ GetConnectionInfo
  \/ GetInfluxHttpClient
  \/ Ping
  \/ GetHealthStatus
  \/ ListDatabases
  \/ CreateDatabase
  \/ DeleteDatabase
  \/ ExecuteQuery
  \/ GetMeasurements
  \/ GetMeasurementSchema
  \/ WriteLineProtocol
  \/ ValidateConfig
  \/ Deliver

Spec == Init /\ [][Next]_vars

(***************************************************************************)
(* The tools a client calls: a handler makes its service call and returns  *)
(* the rendered outcome                                                    *)
(***************************************************************************)

\* the arguments of write_line_protocol after the defaults of its schema
ToolWriteOptions ==
  [precision |-> Opt("nanosecond"), acceptPartial |-> Opt(TRUE),
   noSync |-> Opt(FALSE)]

WriteLineProtocolTool ==
  /\ Idle
  /\ \E data \in LineProtocol, database \in Databases,
        resp \in HttpOutcomes({JNull}) :
       last' = Call("write_line_protocol",
                    [data |-> data, database |-> database], resp,
                    PlainHandler(
                      "Data written successfully to database '" \o database
                        \o "'",
                      writeLineProtocol(config, data, database,
                                        ToolWriteOptions, resp)))
  /\ UNCHANGED <<config, ctorThrows, client, calls>>

CreateDatabaseTool ==
  /\ Idle
  /\ \E name \in DbNames, resp \in HttpOutcomes({JNull}) :
       last' = Call("create_database", [name |-> name], resp,
                    PlainHandler(
                      "Database '" \o name \o "' created successfully",
                      createDatabase(config, name, resp)))
  /\ UNCHANGED <<config, ctorThrows, client, calls>>

DeleteDatabaseTool ==
  /\ Idle
  /\ \E name \in DbNames, resp \in HttpOutcomes({JNull}) :
       last' = Call("delete_database", [name |-> name], resp,
                    PlainHandler(
                      "Database '" \o name \o "' deleted successfully",
                      deleteDatabase(config, name, resp)))
  /\ UNCHANGED <<config, ctorThrows, client, calls>>

ExecuteQueryTool ==
  /\ Idle
  /\ \E query \in Queries, database \in Databases, format \in Formats \ {Absent},
        env \in QueryEnvs(config) :
       LET args == [query |-> query, database |-> database,
                    format |-> format]
       IN last' = Call("execute_query", args, env,
                       executeQueryHandler(
                         args,
                         executeQuery(config, client, query, database, format,
                                      env)))
  /\ UNCHANGED <<config, ctorThrows, client, calls>>

GetMeasurementsTool ==
  /\ Idle
  /\ \E database \in Databases, env \in QueryEnvs(config) :
       LET args == [database |-> database]
       IN last' = Call("get_measurements", args, env,
                       getMeasurementsHandler(
                         args, getMeasurements(config, client, database, env)))
  /\ UNCHANGED <<config, ctorThrows, client, calls>>

GetMeasurementSchemaTool ==
  /\ Idle
  /\ \E measurement \in Measurements, database \in Databases,
        env \in QueryEnvs(config) :
       LET args == [measurement |-> measurement, database |-> database]
       IN last' = Call("get_measurement_schema", args, env,
                       getMeasurementSchemaHandler(
                         args,
                         getMeasurementSchema(config, client, measurement,
                                              database, env)))
  /\ UNCHANGED <<config, ctorThrows, client, calls>>

ListDatabasesTool ==
  /\ Idle
  /\ \E resp \in HttpOutcomes(ListBodies) :
       last' = Call("list_databases", NoArg, resp,
                    listDatabasesHandler(listDatabases(config, client, resp)))
  /\ UNCHANGED <<config, ctorThrows, client, calls>>

HealthCheckTool ==
  /\ Idle
  /\ \E health \in FetchOutcomes, pinged \in FetchOutcomes,
        timestamp \in {"2026-01-01T00:00:00.000Z"} :
       last' = Call("health_check", NoArg,
                    [health |-> health, ping |-> pinged],
                    healthCheckHandler(config, client,
                                       getHealthStatus(config, client, health),
                                       ping(config, pinged), timestamp))
  /\ UNCHANGED <<config, ctorThrows, client, calls>>

DeleteTokenTool ==
  /\ Idle
  /\ \E name \in {"reader"}, r \in DeleteTokenOutcomes :
       LET args == [token_name |-> name]
       IN last' = Call("delete_token", args, NoAnswer,
                       deleteTokenHandler(args, r))
  /\ UNCHANGED <<config, ctorThrows, client, calls>>

ToolNext ==
  \/ WriteLineProtocolTool
  \/ CreateDatabaseTool
  \/ DeleteDatabaseTool
  \/ ExecuteQueryTool
  \/ GetMeasurementsTool
  \/ GetMeasurementSchemaTool
  \/ ListDatabasesTool
  \/ HealthCheckTool
  \/ DeleteTokenTool
  \/ Deliver

SpecTools == Init /\ [][ToolNext]_vars

(***************************************************************************)
(* Calls running at the same time on one Connection Context: an async      *)
(* method runs to its await, is suspended while the backend works, and     *)
(* resumes with the answer; other calls run in between                     *)
(***************************************************************************)

ConcConfigs ==
  {c \in InfluxConfigs :
     /\ c.type \in {Core, Enterprise, CloudDedicated}
     /\ c.url = "http://localhost:8181/"
     /\ c.cluster_id # Absent
     /\ c.account_id # Absent
     /\ c.management_token # Absent}

ConcOps ==
  {"executeQuery", "writeLineProtocol", "listDatabases", "createDatabase",
   "deleteDatabase", "ping", "getHealthStatus"}

\* the arguments of the calls that run concurrently
ConcArgs(op) ==
  CASE op = "executeQuery" ->
         {[query |-> "SELECT 1", database |-> "sensors", format |-> Absent]}
    [] op = "writeLineProtocol" ->
         {[data |-> "cpu,host=a value=1 1640995200000000000",
           database |-> "sensors",
           options |-> [precision |-> None, acceptPartial |-> None,
                        noSync |-> None]]}
    [] op \in {"createDatabase", "deleteDatabase"} -> {[name |-> "sensors"]}
    [] OTHER -> {NoArg}

\* the answers the backend gives to them: one success and one failure
ConcAnswers(influx, op) ==
  LET failed == HttpFail([response |-> TRUE, status |-> 500,
                          statusText |-> StatusText(500), data |-> JUndefined,
                          code |-> "", message |-> "Request failed"])
  IN CASE op \in {"ping", "getHealthStatus"} ->
            {NoFetch,
             [kind |-> "response", status |-> 200, version |-> "3.0.0",
              build |-> "Core", body |-> JObj([status |-> JStr("pass")])]}
       [] op = "executeQuery" ->
            IF influx.type = CloudDedicated
              THEN {[http |-> HttpOk(JNull),
                     stream |-> [rows |-> <<>>, fails |-> f,
                                 message |-> IF f THEN StreamErrorMessage
                                             ELSE ""]] : f \in BOOLEAN}
              ELSE {[http |-> o, stream |-> NoEnv.stream] :
                      o \in {HttpOk(JArr(<<>>)), failed}}
       [] op = "listDatabases" ->
            {HttpOk(JArr(<<JStr("db1")>>)), failed}
       [] OTHER -> {HttpOk(JNull), failed}

ConcInit ==
  /\ config \in ConcConfigs
  /\ ctorThrows \in BOOLEAN
  /\ client = initializeClient(config, ctorThrows)
  /\ last = NoCall
  /\ calls = [p \in Callers |-> NotCalling]

\* the method runs up to its await: the request, if any, is sent
Begin(p) ==
  /\ calls[p].pos = "idle"
  /\ \E op \in ConcOps :
       \E a \in ConcArgs(op) :
         calls' = [calls EXCEPT ![p] =
                     [NotCalling EXCEPT
                        !.pos = "awaiting", !.op = op, !.arg = a,
                        !.requests =
                          Perform(config, client, op, a, NoAnswer).requests]]
  /\ UNCHANGED <<config, ctorThrows, client, last>>

\* Resume that re-initializes the client handle when the backend failed
Resume_DropsClient(p) ==
  /\ calls[p].pos = "awaiting"
  /\ \E answer \in ConcAnswers(config, calls[p].op) :
       LET r == Perform(config, client, calls[p].op, calls[p].arg, answer)
       IN /\ calls' = [calls EXCEPT ![p] =
                         [@ EXCEPT
                            !.pos = "done",
                            !.answer = IF calls[p].requests = <<>>
                                         THEN NoAnswer ELSE answer,
                            !.outcome = r.outcome, !.value = r.value,
                            !.error = r.error]]
          /\ client' = IF r.outcome = "throw" THEN NullClient ELSE client
  /\ UNCHANGED <<config, ctorThrows, last>>

\* the backend answers and the method runs from its await to its end
Resume(p) ==
  /\ calls[p].pos = "awaiting"
  /\ \E answer \in ConcAnswers(config, calls[p].op) :
       LET r == Perform(config, client, calls[p].op, calls[p].arg, answer)
       IN calls' = [calls EXCEPT ![p] =
                      [@ EXCEPT
                         !.pos = "done",
                         !.answer = IF calls[p].requests = <<>>
                                      THEN NoAnswer ELSE answer,
                         !.outcome = r.outcome, !.value = r.value,
                         !.error = r.error]]
  /\ UNCHANGED <<config, ctorThrows, client, last>>

\* the caller takes the outcome of its call
Collect(p) ==
  /\ calls[p].pos = "done"
  /\ calls' = [calls EXCEPT ![p] = NotCalling]
  /\ UNCHANGED <<config, ctorThrows, client, last>>

ConcNext == \E p \in Callers : Begin(p) \/ Resume(p) \/ Collect(p)

SpecConc == ConcInit /\ [][ConcNext]_vars

(***************************************************************************)
(* Properties                                                              *)
(***************************************************************************)

Variants == {Core, Enterprise, CloudDedicated}
DatabaseOps == {"listDatabases", "createDatabase", "deleteDatabase"}
QueryOps == {"executeQuery", "getMeasurements", "getMeasurementSchema"}

\* the minimum data credential set of the active variant
MinimumDataCredentials(influx) ==
  IF influx.type = CloudDedicated
    THEN influx.token # Absent /\ influx.cluster_id # Absent
    ELSE influx.token # Absent /\ influx.url # Absent

\* the call failed with an error of this kind before any request went out
RejectedWith(kind) ==
  /\ last.outcome = "throw"
  /\ last.error.name = kind
  /\ last.requests = <<>>

\* C1: cloud-dedicated with a data token and a cluster id but no management
\* token has no management capabilities, and listDatabases, createDatabase
\* and deleteDatabase each fail with a CapabilityError without a request.
C1_ManagementCallsRejected ==
  (/\ config.type = CloudDedicated
   /\ config.token # Absent
   /\ config.cluster_id # Absent
   /\ config.management_token = Absent)
  => /\ ~hasManagementCapabilities(config)
     /\ last.op = "hasManagementCapabilities" => last.value.bool = FALSE
     /\ last.op \in DatabaseOps => RejectedWith("CapabilityError")

\* C2: for every variant, every request of listDatabases, createDatabase and
\* deleteDatabase goes to the management-plane host with the management-plane
\* credential (cloud-dedicated: the control-plane host and the management
\* token).
C2_ManagementEndpointUsed ==
  (last.op \in DatabaseOps /\ config.type \in Variants)
  => \A i \in 1..Len(last.requests) :
       IF config.type = CloudDedicated
         THEN /\ last.requests[i].host = ControlPlaneHost
              /\ last.requests[i].token = config.management_token
         ELSE /\ last.requests[i].host = config.url
              /\ last.requests[i].token = config.token

\* C3: for each of the three variants and every combination of present and
\* absent fields, hasDataCapabilities() is true iff the variant's minimum
\* data credential set is present.
C3_DataCapabilitiesIffMinimumSet ==
  (last.op = "hasDataCapabilities" /\ config.type \in Variants)
  => (last.value.bool <=> MinimumDataCredentials(config))

C3_Witness ==
  /\ last.op = "hasDataCapabilities"
  /\ config.type = CloudDedicated
  /\ config.url = Absent
  /\ last.value.bool = TRUE

C5_WriteWithoutCapabilityRejected ==
  (last.op = "writeLineProtocol" /\ ~hasDataCapabilities(config))
  => RejectedWith("CapabilityError")

\* what the active variant needs to resolve an endpoint of the kind
RequiredForKind(influx, forManagement) ==
  IF influx.type = CloudDedicated
    THEN IF forManagement
           THEN /\ influx.management_token # Absent
                /\ influx.account_id # Absent
                /\ influx.cluster_id # Absent
           ELSE influx.token # Absent /\ influx.cluster_id # Absent
    ELSE influx.token # Absent /\ influx.url # Absent

\* C6: resolving an endpoint fails with a ConfigurationError whenever what
\* the active variant requires for the request kind is absent; it never
\* yields an endpoint with an empty host or an empty credential.
C6_ResolverRejectsIncomplete ==
  last.op = "getInfluxHttpClient"
  => /\ ~RequiredForKind(config, last.arg.forManagement)
          => (last.outcome = "throw"
              /\ last.error.name = "ConfigurationError")
     /\ last.outcome = "return"
          => (last.value.host # "" /\ last.value.token # "")

\* every field the active variant uses is present
CompleteConfiguration(influx) ==
  IF influx.type = CloudDedicated
    THEN /\ influx.cluster_id # Absent
         /\ influx.account_id # Absent
         /\ influx.token # Absent
         /\ influx.management_token # Absent
    ELSE influx.url # Absent /\ influx.token # Absent

\* C7: for a complete configuration, core and enterprise resolve both kinds
\* to the configured url and the single token; cloud-dedicated resolves data
\* to https://{cluster_id}.a.influxdb.io with the data token and management
\* to https://console.influxdata.com with the management token.
C7_EndpointResolution ==
  (/\ last.op = "getInfluxHttpClient"
   /\ config.type \in Variants
   /\ CompleteConfiguration(config))
  => /\ last.outcome = "return"
     /\ IF config.type # CloudDedicated
          THEN /\ last.value.host = config.url
               /\ last.value.token = config.token
        ELSE IF last.arg.forManagement
          THEN /\ last.value.host = "https://console.influxdata.com"
               /\ last.value.token = config.management_token
        ELSE /\ last.value.host
                  = "https://" \o config.cluster_id \o ".a.influxdb.io"
             /\ last.value.token = config.token

C7_Witness ==
  /\ last.op = "getInfluxHttpClient"
  /\ last.arg.forManagement
  /\ config.type = CloudDedicated
  /\ CompleteConfiguration(config)
  /\ last.value.token = "mgmt-token"

\* C8: for every cloud-dedicated configuration, whatever url, cluster_id and
\* account_id are, the resolved data-plane host differs from the resolved
\* management-plane host.
C8_PlanesHaveDifferentHosts ==
  (last.op = "getInfluxHttpClient" /\ config.type = CloudDedicated)
  => last.value.host
       # getInfluxHttpClient(config, ~last.arg.forManagement).host

\* C9, as stated: the client handle is non-null iff the configuration
\* satisfies the active variant's minimum requirements, also when the
\* client constructor fails.
C9_HandleIffMinimumSet ==
  (last.op = "getClient" /\ config.type \in Variants)
  => (~last.value.null <=> MinimumDataCredentials(config))

\* C9, amended: the client handle is non-null iff the configuration
\* satisfies the active variant's minimum requirements and the client
\* constructor did not fail.
C9_HandleIffMinimumSetAndConstructed ==
  config.type \in Variants
  => (~getClient(client).null
        <=> (MinimumDataCredentials(config) /\ ~ctorThrows))

C9_Witness ==
  /\ last.op = "getClient"
  /\ config.type \in Variants
  /\ MinimumDataCredentials(config)
  /\ ctorThrows
  /\ last.value.null

\* C10: the client handle is assigned only during construction: no
\* operation, succeeding or failing, changes what getClient() returns.
C10_ClientAssignedOnce == [][client' = client]_vars

C10_Witness ==
  /\ last.op = "getHealthStatus"
  /\ last.requests # <<>>
  /\ last.value = JObj([status |-> JStr("fail")])
  /\ ~client.null

\* the operations that send one HTTP request to the backend
HttpDispatchOps ==
  {"executeQuery", "writeLineProtocol", "listDatabases", "createDatabase",
   "deleteDatabase"}

\* the last call sent an HTTP request
HttpDispatched ==
  /\ last.op \in HttpDispatchOps
  /\ last.requests # <<>>
  /\ last.requests[1].via = "http"

\* the answer of the backend to the HTTP request of the last call
HttpAnswer == IF last.op \in QueryOps THEN last.answer.http ELSE last.answer

\* the HTTP request of the last call failed
HttpFailed == HttpDispatched /\ ~HttpAnswer.ok

\* the error kind the taxonomy fixes for a status code
KindOfStatus(status) ==
  CASE status = 400 -> "InvalidArgument"
    [] status = 401 -> "Unauthorized"
    [] status = 403 -> "Forbidden"
    [] status = 404 -> "NotFound"
    [] status = 405 -> "UnsupportedOperation"
    [] status = 409 -> "Conflict"
    [] status = 413 -> "PayloadTooLarge"
    [] status = 422 -> "InvalidArgument"
    [] OTHER -> "TransportFailure"

\* C11: whenever the HTTP request of executeQuery, writeLineProtocol,
\* listDatabases, createDatabase or deleteDatabase fails, the call raises an
\* error whose kind is the one fixed for the status code of the failure
\* (TransportFailure for any other status or none), whatever the operation
\* and the message
C11_KindFixedByStatus ==
  HttpFailed =>
    /\ last.outcome = "throw"
    /\ last.error.name = KindOfStatus(ErrStatus(HttpAnswer.error))

\* the error text the backend reported in its response, "" if none
BackendText(e) ==
  LET reported == Prop(ErrData(e), "error")
  IN IF reported.t = "string" THEN reported.v ELSE ""

\* C12: whenever the HTTP request of a dispatcher operation fails, the
\* message of the raised error contains the error text the backend reported
\* if its response carries one, and otherwise the message of the transport
\* error, for every status code and operation
C12_MessageCarriesBackendText ==
  HttpFailed =>
    /\ last.outcome = "throw"
    /\ LET e == HttpAnswer.error
       IN IF BackendText(e) # ""
            THEN Includes(last.error.message, BackendText(e))
            ELSE Includes(last.error.message, e.message)

\* the backend answered the introspection query of the last call
\* successfully with a row set
SchemaAnswered ==
  /\ last.op = "getMeasurementSchema"
  /\ config.type \in Variants
  /\ last.requests # <<>>
  /\ IF config.type = CloudDedicated THEN ~last.answer.stream.fails
     ELSE last.answer.http.ok /\ IsArray(last.answer.http.data)

\* C13: getMeasurementSchema returns {columns: []} for a measurement that
\* exists and has no column, and fails (with a NotFound error) for a
\* measurement that does not exist, on every variant; stated here only as
\* far as that the call for a missing measurement fails at all
C13_SchemaDistinguishesMissing ==
  SchemaAnswered =>
    /\ last.answer.table = "empty" =>
         /\ last.outcome = "return"
         /\ last.value = JObj([columns |-> JArr(<<>>)])
    /\ last.answer.table = "missing" => last.outcome = "throw"

\* listDatabases asked the backend and got a 2xx answer
ListAnswered ==
  /\ last.op = "listDatabases"
  /\ last.requests # <<>>
  /\ last.answer.ok

\* the lists of database names a backend can report as strings
NameLists == {l \in DbLists : \A i \in 1..Len(l) : l[i].t = "string"}

\* the {name} entries of a list of names, in its order
NameEntries(l) == JArr([i \in 1..Len(l) |-> JObj([name |-> l[i]])])

\* the three documented shapes of a body holding the names l
DocumentedBodies(l) ==
  {JArr(l), JObj([databases |-> JArr(l)]),
   JObj([data |-> JObj([databases |-> JArr(l)])])}

\* the body holds a collection in one of the three documented places
DocumentedShape(body) ==
  \/ IsArray(body)
  \/ IsArray(Prop(body, "databases"))
  \/ IsArray(Prop(Prop(body, "data"), "databases"))

\* the three documented shapes holding the same names give the same list
\* of {name} entries in the same order
DocumentedShapesAgree ==
  \A l \in NameLists :
    (ListAnswered /\ last.answer.data \in DocumentedBodies(l)) =>
      /\ last.outcome = "return"
      /\ last.value = NameEntries(l)

EmptyCollection(body) ==
  \/ body = JArr(<<>>)
  \/ Prop(body, "databases") = JArr(<<>>)
  \/ Prop(Prop(body, "data"), "databases") = JArr(<<>>)
  \/ Prop(Prop(body, "result"), "databases") = JArr(<<>>)

\* C15: listDatabases returns an empty list without any HTTP request
\* exactly when the client handle is null; with a handle it returns an
\* empty list only if the backend answered 2xx with an empty collection
C15_EmptyListOnlyUnconnectedOrEmpty ==
  last.op = "listDatabases" =>
    /\ client.null <=>
         /\ last.outcome = "return"
         /\ last.value = JArr(<<>>)
         /\ last.requests = <<>>
    /\ (~client.null /\ last.outcome = "return" /\ last.value = JArr(<<>>))
         => (last.answer.ok /\ EmptyCollection(last.answer.data))

C15_Witness ==
  /\ last.op = "listDatabases"
  /\ ~client.null
  /\ last.value = JArr(<<>>)
  /\ Len(last.requests) = 1
  /\ last.answer.data = JObj([databases |-> JArr(<<>>)])

\* C16: on core, createDatabase against a backend answering 409 raises a
\* Conflict error whose message contains "already exists" and never
\* returns true; createDatabase returns true only after a 2xx answer
C16_ConflictOnExistingDatabase ==
  (last.op = "createDatabase" /\ config.type = Core) =>
    /\ (HttpFailed /\ ErrStatus(last.answer.error) = 409) =>
         /\ last.outcome = "throw"
         /\ last.error.name = "Conflict"
         /\ Includes(last.error.message, "already exists")
    /\ (last.outcome = "return" /\ last.value = Bool(TRUE)) => last.answer.ok

Probes == {"ping", "getHealthStatus"}

\* the probe of the last call sent no request, or its request ended in an
\* exception or in a non-2xx status
ProbeRefused ==
  \/ last.requests = <<>>
  \/ last.answer.kind = "throw"
  \/ last.answer.status # 200

\* the request of the last probe was answered 2xx with a body that cannot
\* be parsed
ProbeUnparsable ==
  /\ last.requests # <<>>
  /\ last.answer.kind = "response"
  /\ last.answer.status = 200
  /\ last.answer.body = JUndefined

StatusFail == JObj([status |-> JStr("fail")])
StatusPass == JObj([status |-> JStr("pass")])

\* C17 as stated: ping and getHealthStatus never raise; ping returns
\* ok = false on any failure (it reads no body: an exception or a non-2xx
\* status) and getHealthStatus returns status "fail" on any failure (an
\* exception, a non-2xx status or a 2xx answer with an unparsable body)
C17_ProbesNegativeOnAnyFailure ==
  last.op \in Probes =>
    /\ last.outcome = "return"
    /\ IF last.op = "ping" THEN ProbeRefused => ~last.value.ok
       ELSE (ProbeRefused \/ ProbeUnparsable) => last.value = StatusFail

\* C17: ping and getHealthStatus never raise; when no request is sent or
\* the request ends in an exception or a non-2xx status, ping returns
\* ok = false and getHealthStatus returns status "fail"; after a 2xx
\* answer ping returns ok = true whatever the body, and getHealthStatus
\* returns status "pass" when the body cannot be parsed
C17_ProbesFailSoft ==
  last.op \in Probes =>
    /\ last.outcome = "return"
    /\ ProbeRefused =>
         IF last.op = "ping" THEN ~last.value.ok
         ELSE last.value = StatusFail
    /\ ~ProbeRefused =>
         IF last.op = "ping" THEN last.value.ok
         ELSE ProbeUnparsable => last.value = StatusPass

C17_Witness ==
  /\ last.op = "getHealthStatus"
  /\ ProbeUnparsable
  /\ last.value = StatusPass

\* the query string that carries exactly db, precision, accept_partial and
\* no_sync with these values (a space in a value is sent as "+")
WriteQueryString(database, precision, acceptPartial, noSync) ==
  "db=" \o (IF database = "my db" THEN "my+db" ELSE database)
  \o "&precision=" \o precision
  \o "&accept_partial=" \o (IF acceptPartial THEN "true" ELSE "false")
  \o "&no_sync=" \o (IF noSync THEN "true" ELSE "false")

\* C18: on every variant with data capability, writeLineProtocol sends one
\* POST to /api/v3/write_lp on the data endpoint with the data token, the
\* body is the payload unchanged, and the query parameters are exactly db,
\* precision, accept_partial and no_sync with the caller's values, where
\* precision defaults to nanosecond, accept_partial to true and no_sync to
\* false
C18_WriteRequest ==
  (/\ last.op = "writeLineProtocol"
   /\ config.type \in Variants
   /\ MinimumDataCredentials(config))
  => /\ Len(last.requests) = 1
     /\ LET req == last.requests[1]
            o == last.arg.options
        IN /\ req.via = "http"
           /\ req.method = "POST"
           /\ req.host = IF config.type = CloudDedicated
                            THEN "https://" \o config.cluster_id
                                 \o ".a.influxdb.io"
                            ELSE config.url
           /\ req.token = config.token
           /\ req.body = TextBody(last.arg.data)
           /\ req.path
                = "/api/v3/write_lp?"
                  \o WriteQueryString(
                       last.arg.database,
                       IF o.precision.set THEN o.precision.v ELSE "nanosecond",
                       IF o.acceptPartial.set THEN o.acceptPartial.v ELSE TRUE,
                       IF o.noSync.set THEN o.noSync.v ELSE FALSE)

C18_Witness ==
  /\ last.op = "writeLineProtocol"
  /\ config.type = CloudDedicated
  /\ MinimumDataCredentials(config)
  /\ last.arg.options.noSync = None
  /\ last.requests[1].host = "https://c1.a.influxdb.io"
  /\ last.requests[1].path
       = "/api/v3/write_lp?db=my+db&precision=second&accept_partial=false&no_sync=false"

\* the backend failed the request of the last call
BackendFailed ==
  /\ last.requests # <<>>
  /\ IF last.requests[1].via = "http" THEN ~HttpAnswer.ok
     ELSE last.answer.stream.fails

\* C19: a call of executeQuery, writeLineProtocol, listDatabases,
\* createDatabase or deleteDatabase sends at most one request to the
\* backend, and when that request fails the call raises an error without
\* sending another
C19_NoRetries ==
  last.op \in HttpDispatchOps =>
    /\ Len(last.requests) <= 1
    /\ BackendFailed => last.outcome = "throw"

C19_Witness ==
  /\ last.op = "executeQuery"
  /\ config.type = Enterprise
  /\ BackendFailed
  /\ ErrStatus(HttpAnswer.error) = 500
  /\ Len(last.requests) = 1
  /\ last.outcome = "throw"

\* C20: on cloud-dedicated with data capability and a client handle,
\* executeQuery opens one cursor with type sql for the query and database
\* of the caller; when the cursor ends, the call returns every row the
\* cursor produced, in the order produced, none dropped or repeated; when
\* the cursor fails part-way, the call raises an error and returns no row
C20_CursorDrainedOrError ==
  (/\ last.op = "executeQuery"
   /\ config.type = CloudDedicated
   /\ MinimumDataCredentials(config)
   /\ ~client.null)
  => /\ Len(last.requests) = 1
     /\ last.requests[1].via = "influxdb3"
     /\ last.requests[1].body
          = [q |-> last.arg.query, db |-> last.arg.database, type |-> "sql"]
     /\ IF last.answer.stream.fails
          THEN last.outcome = "throw" /\ last.value = Void
          ELSE /\ last.outcome = "return"
               /\ last.value = JArr(last.answer.stream.rows)

C20_Witness ==
  /\ last.op = "executeQuery"
  /\ config.type = CloudDedicated
  /\ last.requests # <<>>
  /\ last.answer.stream.fails
  /\ Len(last.answer.stream.rows) = 1
  /\ last.outcome = "throw"

\* the Accept header fixed for a format: JSON unless csv or parquet
AcceptFor(format) ==
  IF format = "csv" THEN "text/csv"
  ELSE IF format = "parquet" THEN "application/vnd.apache.parquet"
  ELSE "application/json"

\* C21: on core and enterprise with data capability, executeQuery sends
\* one POST to /api/v3/query_sql with body {db, q, format}, where an
\* omitted format is json, and the Accept header fixed for the format
\* (text/csv for csv, the parquet type for parquet, application/json for
\* every other); on a 2xx answer it returns the body unchanged
C21_QueryRequest ==
  (/\ last.op = "executeQuery"
   /\ config.type \in {Core, Enterprise}
   /\ MinimumDataCredentials(config))
  => LET format == IF last.arg.format = Absent THEN "json"
                   ELSE last.arg.format
     IN /\ Len(last.requests) = 1
        /\ last.requests[1].via = "http"
        /\ last.requests[1].method = "POST"
        /\ last.requests[1].host = config.url
        /\ last.requests[1].path = "/api/v3/query_sql"
        /\ last.requests[1].body
             = [db |-> last.arg.database, q |-> last.arg.query,
                format |-> format]
        /\ last.requests[1].accept = AcceptFor(format)
        /\ last.answer.http.ok =>
             (last.outcome = "return" /\ last.value = last.answer.http.data)

C21_Witness ==
  /\ last.op = "executeQuery"
  /\ config.type = Core
  /\ last.arg.format = "csv"
  /\ last.requests # <<>>
  /\ last.requests[1].accept = "text/csv"
  /\ last.value = JStr("time,value")

\* two configurations of one variant that differ at most in the fields
\* irrelevant to it
DiffersOnlyInIrrelevant(a, b) ==
  /\ a.type = b.type
  /\ a.type \in Variants
  /\ a.token = b.token
  /\ IF a.type = CloudDedicated
       THEN /\ a.cluster_id = b.cluster_id
            /\ a.account_id = b.account_id
            /\ a.management_token = b.management_token
       ELSE a.url = b.url

\* the last call made again on the context of another configuration, with
\* the same arguments and the same answer of the backend
Replay(influx) ==
  Perform(influx, initializeClient(influx, ctorThrows), last.op, last.arg,
          last.answer)

\* C22: after any call, every configuration of the same variant that
\* differs from the active one only in fields irrelevant to the variant
\* (cluster_id, account_id, management_token on core/enterprise; url on
\* cloud-dedicated) has the same capability predicates, the same data and
\* management endpoints, the same nullness of the client handle, and the
\* same outbound request for that call
C22_IrrelevantFieldsIgnored ==
  ~Idle =>
    \A other \in InfluxConfigs :
      DiffersOnlyInIrrelevant(config, other) =>
        /\ hasDataCapabilities(other) = hasDataCapabilities(config)
        /\ hasManagementCapabilities(other)
             = hasManagementCapabilities(config)
        /\ getInfluxHttpClient(other, FALSE)
             = getInfluxHttpClient(config, FALSE)
        /\ getInfluxHttpClient(other, TRUE)
             = getInfluxHttpClient(config, TRUE)
        /\ initializeClient(other, ctorThrows).null = client.null
        /\ Replay(other).requests = last.requests

\* what the call of a caller is when it runs alone on the context: its
\* request and, once answered, its result
RunsAsAlone(call) ==
  LET alone == Perform(config, client, call.op, call.arg, call.answer)
  IN /\ call.requests = alone.requests
     /\ call.pos = "done" =>
          /\ call.outcome = alone.outcome
          /\ call.value = alone.value
          /\ call.error = alone.error

C24_ValidateConfigRejects ==
  last.op = "validateConfig" =>
    LET influx == last.arg
        noUrl == influx.url = Absent
        noToken == influx.token = Absent
        badType == influx.type \notin {Enterprise, Core}
    IN IF noUrl \/ noToken \/ badType
         THEN /\ last.outcome = "throw"
              /\ Includes(last.error.message,
                          "Configuration validation failed:")
              /\ noUrl => Includes(last.error.message, UrlRequired)
              /\ noToken => Includes(last.error.message, TokenRequired)
              /\ badType => Includes(last.error.message, TypeRequired)
         ELSE last.outcome = "return"

\* the place of a 2xx body that wins the probe: a top-level databases
\* array, then a bare array, then data.databases, then result.databases
\* (of the last two the first that holds anything)
ProbedPlace(body) ==
  IF IsArray(Prop(body, "databases")) THEN Prop(body, "databases")
  ELSE IF IsArray(body) THEN body
  ELSE IF JTruthy(Prop(Prop(body, "data"), "databases"))
    THEN Prop(Prop(body, "data"), "databases")
  ELSE Prop(Prop(body, "result"), "databases")

\* the entry an item must give: a string its name, an object with a
\* non-empty "iox::database" that value, an object with a name its name
EntryAsClaimed(item, entry) ==
  /\ item.t = "string" => entry = JObj([name |-> item])
  /\ (item.t = "object" /\ JTruthy(Prop(item, "iox::database")))
       => entry = JObj([name |-> Prop(item, "iox::database")])
  /\ (/\ item.t = "object"
      /\ ~JTruthy(Prop(item, "iox::database"))
      /\ JTruthy(Prop(item, "name")))
       => entry = JObj([name |-> Prop(item, "name")])

\* C25: listDatabases takes the collection from the first place that
\* matches in the order top-level databases array, bare array,
\* data.databases, result.databases, and gives one {name} entry per item
\* of it, in its order: a string is the name, an object with a non-empty
\* "iox::database" gives that value even if it has a name too, an object
\* with a name gives the name
C25_ProbeAndNormalizeOrder ==
  (ListAnswered /\ IsArray(ProbedPlace(last.answer.data))) =>
    LET items == ProbedPlace(last.answer.data).v
    IN /\ last.outcome = "return"
       /\ IsArray(last.value)
       /\ Len(last.value.v) = Len(items)
       /\ \A i \in 1..Len(items) : EntryAsClaimed(items[i], last.value.v[i])

C25_Witness ==
  /\ ListAnswered
  /\ last.answer.data
       = JObj([databases |-> JArr(<<JStr("db1")>>),
               data |-> JObj([databases |-> JArr(<<JStr("db2")>>)])])
  /\ last.value = JArr(<<JObj([name |-> JStr("db1")])>>)

Tools ==
  {"write_line_protocol", "create_database", "delete_database",
   "execute_query", "get_measurements", "get_measurement_schema",
   "list_databases", "health_check", "delete_token"}

\* C26: a tool handler never raises; when the service operation it calls
\* raises, it returns isError = true and a text that contains the message
\* of the error; it returns a result without isError only when the service
\* operation did not raise, and delete_token also returns isError = true
\* when the service returns false
C26_HandlersCatchEverything ==
  last.op \in Tools =>
    /\ last.outcome = "return"
    /\ last.value.service.outcome = "throw" =>
         /\ last.value.isError
         /\ Includes(last.value.text, last.value.service.error.message)
    /\ ~last.value.isError => last.value.service.outcome = "return"
    /\ (/\ last.op = "delete_token"
        /\ last.value.service.outcome = "return"
        /\ ~last.value.service.value.bool) => last.value.isError

C26_Witness ==
  /\ last.op = "write_line_protocol"
  /\ last.requests # <<>>
  /\ ~last.answer.ok
  /\ last.value.isError
  /\ last.value.text = "Error: Unprocessable entity: Invalid line protocol syntax"

\* the management token goes with the control-plane host only, the data
\* token with the data host only
PairedAsClaimed(influx, host, token) ==
  /\ (Truthy(influx.management_token) /\ token = influx.management_token)
       => host = ControlPlaneHost
  /\ (Truthy(influx.token) /\ token = influx.token)
       => /\ host = StripTrailingSlash(getDataHost(influx))
          /\ host # ControlPlaneHost

\* C27: under a cloud-dedicated configuration, the endpoint returned by
\* getInfluxHttpClient, every request of ping and getHealthStatus and the
\* constructed client pair the management token with the control-plane
\* host only and the data token with the data host only, so the data token
\* never reaches the control-plane host
C27_TokensStayOnTheirPlane ==
  config.type = CloudDedicated =>
    /\ ~client.null => PairedAsClaimed(config, client.host, client.token)
    /\ (last.op = "getInfluxHttpClient" /\ last.outcome = "return")
         => PairedAsClaimed(config, StripTrailingSlash(last.value.host),
                            last.value.token)
    /\ last.op \in {"ping", "getHealthStatus"} =>
         \A i \in DOMAIN last.requests :
           PairedAsClaimed(config, last.requests[i].host,
                           last.requests[i].token)

\* a product type outside the three variants, with url and token present
UnknownTypeConfigured ==
  /\ config.type \notin Variants
  /\ Truthy(config.url)
  /\ Truthy(config.token)

UnsupportedRaised ==
  /\ last.outcome = "throw"
  /\ Includes(last.error.message, "Unsupported InfluxDB product type")
  /\ last.requests = <<>>

RequestToConfiguredUrl ==
  /\ Len(last.requests) = 1
  /\ last.requests[1].via = "http"
  /\ last.requests[1].host = config.url

\* C28 as stated: with a product type outside the three variants and url
\* and token present, hasDataCapabilities() is true, the three query
\* operations raise "Unsupported InfluxDB product type" without a request,
\* and writeLineProtocol, listDatabases, createDatabase and deleteDatabase
\* each issue their HTTP request to the configured url
C28_UnknownTypeAsStated ==
  UnknownTypeConfigured =>
    /\ hasDataCapabilities(config)
    /\ last.op \in QueryOps => UnsupportedRaised
    /\ last.op \in {"writeLineProtocol"} \cup DatabaseOps
         => RequestToConfiguredUrl

\* C28: with a product type outside the three variants and url and token
\* present, hasDataCapabilities() is true, the three query operations raise
\* "Unsupported InfluxDB product type" without a request, writeLineProtocol,
\* createDatabase and deleteDatabase each issue their HTTP request to the
\* configured url, and listDatabases does so when the client handle was
\* constructed and returns the empty list without a request otherwise
C28_UnknownTypeHalfSupported ==
  UnknownTypeConfigured =>
    /\ hasDataCapabilities(config)
    /\ last.op \in QueryOps => UnsupportedRaised
    /\ last.op \in {"writeLineProtocol", "createDatabase", "deleteDatabase"}
         => RequestToConfiguredUrl
    /\ last.op = "listDatabases" =>
         IF client.null
           THEN /\ last.requests = <<>>
                /\ last.outcome = "return"
                /\ last.value = JArr(<<>>)
           ELSE RequestToConfiguredUrl

C28_Witness ==
  /\ UnknownTypeConfigured
  /\ last.op = "getMeasurementSchema"
  /\ UnsupportedRaised

\* getHealthStatus answers fail by itself, whatever the backend would say
HealthFailsUnasked ==
  \A resp \in FetchOutcomes :
    getHealthStatus(config, client, resp)
      = Ret(JObj([status |-> JStr("fail")]), <<>>)

\* C29: getHealthStatus returns {status: "fail"} without a request whenever
\* the client handle is null or no data host resolves; ping issues its one
\* request whenever a data host resolves, whether or not the handle is null
\* or the token empty
C29_HealthGatedOnHandlePingNot ==
  /\ (last.op = "getHealthStatus"
      /\ (client.null \/ ~Truthy(getDataHost(config))))
       => /\ last.outcome = "return"
          /\ last.value = JObj([status |-> JStr("fail")])
          /\ last.requests = <<>>
  /\ (client.null \/ ~Truthy(getDataHost(config))) => HealthFailsUnasked
  /\ (last.op = "ping" /\ Truthy(getDataHost(config)))
       => /\ Len(last.requests) = 1
          /\ last.requests[1].path = "/ping"
          /\ last.requests[1].host = StripTrailingSlash(getDataHost(config))

\* ping reports ok = true, with a null handle and an empty token, in a
\* state where getHealthStatus answers fail without a request
C29_Witness ==
  /\ last.op = "ping"
  /\ client.null
  /\ ~Truthy(config.token)
  /\ last.outcome = "return"
  /\ last.value.ok
  /\ HealthFailsUnasked

\* the introspection query of getMeasurementSchema failed
SchemaQueryFailed ==
  /\ last.op = "getMeasurementSchema"
  /\ config.type \in Variants
  /\ hasDataCapabilities(config)
  /\ IF config.type = CloudDedicated
       THEN client.null \/ last.answer.stream.fails
       ELSE ~last.answer.http.ok

\* the failure as the query operation raises it
UnderlyingFailure ==
  handleQueryError(
    IF config.type = CloudDedicated
      THEN IF client.null THEN LocalError("InfluxDB client not initialized")
           ELSE LocalError(last.answer.stream.message)
      ELSE last.answer.http.error)

\* the backend answered the introspection query with a 404
Answered404 ==
  /\ config.type # CloudDedicated
  /\ ErrStatus(last.answer.http.error) = 404

\* C30: when its query fails, getMeasurementSchema raises "Table '<m>' does
\* not exist in database '<d>'" if the message of the failure contains
\* "not found", which every 404 does, being normalized to "Database not
\* found: ..."; otherwise it raises "Failed to get schema for measurement
\* '<m>': " followed by the message of the failure
C30_NotFoundReportedAsMissingTable ==
  SchemaQueryFailed =>
    /\ last.outcome = "throw"
    /\ Answered404 =>
         /\ Includes(UnderlyingFailure.message, "Database not found: ")
         /\ Includes(UnderlyingFailure.message, "not found")
    /\ last.error.message =
         IF Includes(UnderlyingFailure.message, "not found")
           THEN "Table '" \o last.arg.measurement
                \o "' does not exist in database '" \o last.arg.database
                \o "'"
           ELSE "Failed to get schema for measurement '"
                \o last.arg.measurement \o "': "
                \o UnderlyingFailure.message

\* a 404, that is a missing database, reported as a missing table
C30_Witness ==
  /\ SchemaQueryFailed
  /\ Answered404
  /\ last.error.message
       = "Table '" \o last.arg.measurement
         \o "' does not exist in database '" \o last.arg.database \o "'"
====
